---- MODULE Spec2Model ----
(***************************************************************************)
(* A model of the CVODES simulation driver of myokit_beta/_sim/_cvodessim.c *)
(* (sim_init, sim_step, sim_clean, the Model logging interface) as a state  *)
(* machine.                                                                 *)
(*                                                                          *)
(* Time is a grid of integers.  A state vector is represented by the time   *)
(* whose solution it holds (y = 2 reads "y holds y(2)"); StageTag is the    *)
(* value of an integrator-internal iterate that is no point of the          *)
(* solution.  Memory is a set of live blocks (heap) and a pointer map       *)
(* (g.ptr); freeing a block that is not live, or reading through a NULL or  *)
(* uninitialised pointer, is undefined behaviour and is recorded in fault.  *)
(* What the process does after undefined behaviour is unconstrained: the    *)
(* model keeps no state of it and takes no further step from it.  Memory    *)
(* exhaustion in malloc, SUNDIALS or the Python runtime is not modelled.    *)
(***************************************************************************)
EXTENDS Integers, Sequences, FiniteSets, TLC

VARIABLES
    env,          \* the build and the integrator's behaviour (constant over a behaviour)
    g,            \* the module-level (static) variables of _cvodessim.c
    heap,         \* the set of live memory blocks
    fault,        \* "none", or the undefined behaviour the process ran into
    py,           \* the host's objects handed to sim_init (log, lists)
    pc,           \* "host": control is with the host; "step": inside sim_step's loop
    steps_taken,  \* sim_step's local iteration counter
    ret,          \* what the last call of sim_init or sim_step returned
    nsim,         \* number of sim_init calls that passed the latch so far
    gh,           \* history of the current simulation, for stating the claims
    ev            \* the last call of sim_eval_derivatives: its arguments and outcome

vars == <<env, g, heap, fault, py, pc, steps_taken, ret, nsim, gh, ev>>

(***************************************************************************)
(* Bounds of the model.                                                    *)
(***************************************************************************)
TEnd == 3          \* latest tmax of a simulation
MaxSims == 2       \* simulations a host of the "repeat" profile starts
MaxZeroRun == 1    \* consecutive zero-length integrator steps, "wide" and "repeat" hosts
LongZeroRun == 60  \* consecutive zero-length integrator steps, "long" host
LongTEnd == 2      \* tmax of the "long" host
MaxKeptRows == 1   \* rows already in the sinks a host hands to sim_init
MaxFailRow == 2    \* the Model_Log call within an iteration whose append may fail
MaxLoggedRows == 2 \* rows Model_Log appends to a sink in the logging interface's own runs
IndexBits == 4 \* the width of the logging index ilog in the index specification (Py_ssize_t)
ParameterUnit == 2 \* parameter values are counted in fractions: ParameterUnit stands for 1.0
JunkValue == 9     \* what a read past the end of an empty array may find, besides 0

(***************************************************************************)
(* Constants of the program.                                               *)
(***************************************************************************)
max_zero_step_count == 500
yield_steps == 100
n_states == 8

Infinity == TEnd + 10
StageTag == 0 - 1

Min(a, b) == IF a < b THEN a ELSE b

SetMin(S) == CHOOSE x \in S : \A z \in S : x <= z

(***************************************************************************)
(* Pacing systems (pacing.h).                                               *)
(***************************************************************************)
ESys_Create == [events |-> {}, cursor |-> 0 - 1]

ESys_Populate(e, protocol) == [e EXCEPT !.events = protocol.events]

ESys_AdvanceTime(e, time) ==
    IF time < e.cursor
    THEN [flag |-> "ESys_NEGATIVE_TIME_INCREMENT", e |-> e]
    ELSE [flag |-> "ESys_OK", e |-> [e EXCEPT !.cursor = time]]

ESys_GetNextTime(e) ==
    LET future == {x \in e.events : x > e.cursor}
    IN  IF future = {} THEN Infinity ELSE SetMin(future)

ESys_GetLevel(e) == Cardinality({x \in e.events : x <= e.cursor}) % 2

ESys_eq(a, b) == a = b

FSys_GetLevel(time) == time % 2

(***************************************************************************)
(* The Model struct and its logging interface.                             *)
(***************************************************************************)
LogNames == <<"membrane.V", "dot(membrane.V)", "engine.time", "engine.pace", "membrane.i_ion">>

StateNames == {"membrane.V"}
DerivativeNames == {"dot(membrane.V)"}
BoundNames == {"engine.time", "engine.pace"}
IntermediaryNames == {"membrane.i_ion"}

\* The literals and the parameters a new model holds.
DefaultLiterals == <<1, 1>>

DefaultParameters(n) == [i \in 1..n |-> 1]

\* Lines 530-546: the constants derived from the literals.
LiteralDerived(literals) == <<literals[1] + literals[2]>>

\* Lines 556-563: the constants derived from the parameters.
ParameterDerived(parameters) ==
    IF Len(parameters) = 0 THEN <<>> ELSE <<parameters[1] + 2 * parameters[Len(parameters)]>>

Model_EvaluateLiteralDerivedVariables(m) ==
    [m EXCEPT !.literal_derived = LiteralDerived(m.literals)]

Model_EvaluateParameterDerivedVariables(m) ==
    [m EXCEPT !.parameter_derived = ParameterDerived(m.parameters)]

Model_Create ==
    [ is_ode |-> env.is_ode,
      has_sensitivities |-> env.has_sensitivities,
      n_pace |-> 0,
      pace_values |-> <<>>,
      n_parameters |-> IF env.has_sensitivities THEN 2 ELSE 0,
      literals |-> DefaultLiterals,
      literal_derived |-> LiteralDerived(DefaultLiterals),
      parameters |-> DefaultParameters(IF env.has_sensitivities THEN 2 ELSE 0),
      parameter_derived |-> ParameterDerived(DefaultParameters(IF env.has_sensitivities THEN 2 ELSE 0)),
      valid_cache_derivatives |-> FALSE,
      valid_cache_sensitivity_outputs |-> FALSE,
      time |-> 0,
      states |-> StageTag,
      derivatives |-> StageTag,
      logging_initialized |-> FALSE,
      logging_states |-> FALSE,
      logging_derivatives |-> FALSE,
      logging_bound |-> FALSE,
      logging_intermediary |-> FALSE,
      n_logged_variables |-> 0,
      log_vars |-> <<>> ]

Model__ValidCache(m) == m.valid_cache_derivatives /\ m.valid_cache_sensitivity_outputs

Model__InvalidateCache(m) ==
    [m EXCEPT !.valid_cache_derivatives = FALSE, !.valid_cache_sensitivity_outputs = FALSE]

\* The first index (from 0) at which the model's vector old is scanned to differ
\* from new; the scan is made only while the cache is valid.
FirstChange(m, old, new) ==
    IF ~Model__ValidCache(m) THEN 0
    ELSE Cardinality({i \in 1..Len(old) : \A j \in 1..i : old[j] = new[j]})

\* Lines 625-655.
Model_SetParameters(m, parameters) ==
    IF FirstChange(m, m.parameters, parameters) < m.n_parameters
    THEN Model_EvaluateParameterDerivedVariables(Model__InvalidateCache(
            [m EXCEPT !.parameters = [i \in 1..m.n_parameters |->
                IF i > FirstChange(m, m.parameters, parameters) THEN parameters[i] ELSE @[i]]]))
    ELSE m

\* Lines 674-712: the independents that are parameters, in the order of the
\* parameters; udata->p holds the values sim_init copied from the model's
\* parameters (lines 2306-2308).
Model_SetParametersFromIndependents(m, independents) ==
    IF m.has_sensitivities THEN Model_SetParameters(m, independents) ELSE m

Model_SetBoundVariables(m, time, pace) ==
    IF time # m.time \/ \E i \in 1..m.n_pace : pace[i] # m.pace_values[i]
    THEN Model__InvalidateCache(
            [m EXCEPT !.time = time, !.pace_values = [i \in 1..m.n_pace |-> pace[i]]])
    ELSE m

Model_SetStates(m, ytag) ==
    IF Model__ValidCache(m) /\ m.states = ytag THEN m
    ELSE Model__InvalidateCache([m EXCEPT !.states = ytag])

\* B_pace is pace_values[0], whatever n_pace is: with no pacing value it reads
\* past the end of the array.
B_pace(m) == IF m.n_pace > 0 THEN m.pace_values[1] ELSE env.junk

\* The derivatives as the function of what the equations read.
Derivatives(m) ==
    [y |-> m.states, pace |-> B_pace(m), c |-> m.literal_derived, p |-> m.parameter_derived]

Model_EvaluateDerivatives(m) ==
    [m EXCEPT !.derivatives = Derivatives(m), !.valid_cache_derivatives = TRUE]

Model_EvaluateSensitivityOutputs(m) == [m EXCEPT !.valid_cache_sensitivity_outputs = TRUE]

ModelValue(m, name) ==
    CASE name \in StateNames -> m.states
      [] name \in DerivativeNames -> m.derivatives
      [] name = "engine.time" -> m.time
      [] name = "engine.pace" -> B_pace(m)
      [] OTHER -> m.derivatives

InLog(keys, name) == name \in keys

\* Faulty variant of Model_InitializeLogging: keys that name no variable are not counted.
Model_InitializeLogging_lenient(m, keys) ==
    IF m.logging_initialized
    THEN [flag |-> "Model_LOGGING_ALREADY_INITIALIZED", m |-> m]
    ELSE
    LET bound == SelectSeq(LogNames, LAMBDA n : InLog(keys, n))
        has(S) == \E i \in 1..Len(bound) : bound[i] \in S
        m1 == [m EXCEPT !.n_logged_variables = Len(bound),
                        !.log_vars = bound,
                        !.logging_states = has(StateNames),
                        !.logging_derivatives = has(DerivativeNames),
                        !.logging_bound = has(BoundNames),
                        !.logging_intermediary = has(IntermediaryNames)]
    IN  [flag |-> "Model_OK", m |-> [m1 EXCEPT !.logging_initialized = TRUE]]

Model_InitializeLogging(m, keys) ==
    IF m.logging_initialized
    THEN [flag |-> "Model_LOGGING_ALREADY_INITIALIZED", m |-> m]
    ELSE
    LET bound == SelectSeq(LogNames, LAMBDA n : InLog(keys, n))
        has(S) == \E i \in 1..Len(bound) : bound[i] \in S
        m1 == [m EXCEPT !.n_logged_variables = Cardinality(keys),
                        !.log_vars = bound,
                        !.logging_states = has(StateNames),
                        !.logging_derivatives = has(DerivativeNames),
                        !.logging_bound = has(BoundNames),
                        !.logging_intermediary = has(IntermediaryNames)]
    IN  IF Len(bound) # m1.n_logged_variables
        THEN [flag |-> "Model_UNKNOWN_VARIABLES_IN_LOG", m |-> m1]
        ELSE [flag |-> "Model_OK", m |-> [m1 EXCEPT !.logging_initialized = TRUE]]

\* The sinks that receive a value when the append on sink number failSink
\* (0: none) fails: the loop returns at the first failure.
\* Faulty variant of Model_DeInitializeLogging: only the flag is reset.
Model_DeInitializeLogging_flag_only(m) ==
    IF ~m.logging_initialized
    THEN [flag |-> "Model_LOGGING_NOT_INITIALIZED", m |-> m]
    ELSE [flag |-> "Model_OK", m |-> [m EXCEPT !.logging_initialized = FALSE]]

\* Lines 1114-1139.
Model_DeInitializeLogging(m) ==
    IF ~m.logging_initialized
    THEN [flag |-> "Model_LOGGING_NOT_INITIALIZED", m |-> m]
    ELSE [flag |-> "Model_OK",
          m |-> [m EXCEPT !.logging_initialized = FALSE,
                          !.n_logged_variables = 0,
                          !.log_vars = <<>>,
                          !.logging_states = FALSE,
                          !.logging_derivatives = FALSE,
                          !.logging_intermediary = FALSE,
                          !.logging_bound = FALSE]]

AppendedSinks(n, failSink) ==
    IF failSink \in 1..n THEN 1..(failSink - 1) ELSE 1..n

Model_Log(m, log, failSink) ==
    IF ~m.logging_initialized
    THEN [flag |-> "Model_LOGGING_NOT_INITIALIZED", log |-> log]
    ELSE
    LET n == m.n_logged_variables
        done == AppendedSinks(n, failSink)
        name(i) == m.log_vars[i]
    IN  [flag |-> IF failSink \in 1..n THEN "Model_LOG_APPEND_FAILED" ELSE "Model_OK",
         log |-> [k \in DOMAIN log |->
                    IF \E i \in done : name(i) = k
                    THEN Append(log[k], ModelValue(m, k))
                    ELSE log[k]]]

Model_LogSensitivityMatrix(m, list) == Append(list, m.time)

(***************************************************************************)
(* Memory.                                                                  *)
(***************************************************************************)
PtrNames ==
    {"model", "model.pace_values", "model._log_vars", "y", "ylast", "sy", "z", "sz",
     "cvode_mem", "udata", "udata.p", "pbar", "pacing_systems", "pacing_types",
     "pacing", "rf_direction"}

NullPtrs == [p \in PtrNames |-> "NULL"]

\* malloc: block b becomes live and pointer p refers to it.
Alloc(w, p, b) ==
    [w EXCEPT !.heap = @ \cup {b}, !.g.ptr[p] = b]

\* free(p): nothing for NULL; undefined when the block is not live.
Free(w, p) ==
    LET b == w.g.ptr[p]
    IN  IF b = "NULL" THEN w
        ELSE IF b \in w.heap THEN [w EXCEPT !.heap = @ \ {b}]
        ELSE [w EXCEPT !.fault = IF @ = "none" THEN "double_free" ELSE @]

SetNull(w, p) == [w EXCEPT !.g.ptr[p] = "NULL"]

FreeNull(w, p) == SetNull(Free(w, p), p)

PsysBlock(i) == IF i = 1 THEN "psys1" ELSE IF i = 2 THEN "psys2" ELSE "psys3"

(***************************************************************************)
(* Model_Destroy: frees the struct, its variable arrays and the logging    *)
(* arrays.  pace_values is not among the arrays it frees.                  *)
(***************************************************************************)
Model_Destroy(w) ==
    IF w.g.ptr["model"] = "NULL" THEN w
    ELSE LET w1 == FreeNull(w, "model._log_vars")
             w2 == Free(w1, "model")
         IN  [w2 EXCEPT !.g.model = Model_Create,
                        !.g.ptr["model.pace_values"] = "NULL"]

(***************************************************************************)
(* A call in progress carries the world and how the call stands: "running", *)
(* or "error", "yield", "done" with the error or the value it returns.      *)
(***************************************************************************)
Running(w) == [w |-> w, kind |-> "running", err |-> "none", val |-> 0]

Raised(w, err) == [w |-> w, kind |-> "error", err |-> err, val |-> 0]

(***************************************************************************)
(* sim_clean.                                                               *)
(***************************************************************************)
\* Lines 1812-1818: y, ylast, sy, and z, sz where they are vectors of their own.
clean_vectors(w) ==
    IF w.g.ptr["model"] # "NULL" /\ w.g.model.is_ode /\ ~w.g.dynamic_logging
    THEN FreeNull(FreeNull(FreeNull(FreeNull(FreeNull(w, "y"), "ylast"), "sy"), "z"), "sz")
    ELSE FreeNull(FreeNull(FreeNull(w, "y"), "ylast"), "sy")

\* Lines 1821-1834: rf_direction, the integrator and with it its internal time, pbar
\* (whose pointer is kept).
clean_solver(w) ==
    [Free(FreeNull(FreeNull(w, "rf_direction"), "cvode_mem"), "pbar") EXCEPT !.g.cv_t = 0]

\* Lines 1835-1838.
clean_udata(w) ==
    IF w.g.ptr["udata"] # "NULL" THEN FreeNull(FreeNull(w, "udata.p"), "udata") ELSE w

\* Lines 1842-1846: ESys_Destroy / FSys_Destroy on entry i of pacing_systems.
DestroyPacingSystem(w, i) ==
    LET kind == w.g.pacing_types[i]
        sys == w.g.pacing_systems[i]
    IN  IF kind \notin {"EVENT", "FIXED"} THEN w
        ELSE IF sys.ptr = "NULL" THEN w
        ELSE IF sys.ptr \in w.heap THEN [w EXCEPT !.heap = @ \ {sys.ptr}]
        ELSE [w EXCEPT !.fault = IF @ = "none" THEN "wild_free" ELSE @]

\* Lines 1841-1847: the loop runs to the static n_pace, whatever pacing_types holds.
RECURSIVE DestroyPacingFrom(_, _)
DestroyPacingFrom(w, i) ==
    IF i > w.g.n_pace \/ w.fault # "none" THEN w
    ELSE IF w.g.ptr["pacing_types"] = "NULL"
         THEN [w EXCEPT !.fault = "null_deref"]
         ELSE DestroyPacingFrom(DestroyPacingSystem(w, i), i + 1)

\* Lines 1848-1850.
clean_pacing(w) ==
    [FreeNull(FreeNull(FreeNull(w, "pacing_systems"), "pacing_types"), "pacing")
        EXCEPT !.g.pacing_systems = <<>>, !.g.pacing_types = <<>>, !.g.pacing = <<>>]

\* Faulty variant of Cleaned: the latch stays set.
Cleaned_latch_kept(w) == w

\* Line 1863: the latch is cleared.
Cleaned(w) == [w EXCEPT !.g.initialized = FALSE]

\* Lines 1853-1863.
clean_model(w) ==
    IF w.fault # "none" THEN w
    ELSE Cleaned(SetNull(Model_Destroy(clean_pacing(w)), "model"))

sim_clean(w) ==
    IF ~w.g.initialized THEN w
    ELSE clean_model(DestroyPacingFrom(clean_udata(clean_solver(clean_vectors(w))), 1))

\* "return sim_clean()" after an error has been set (also sim_cleanx).
Stopped(w, err) == Raised(sim_clean(w), err)

(***************************************************************************)
(* rhs, and the logging of one row.                                         *)
(***************************************************************************)
rhs(w, time, ytag) ==
    LET pace == [i \in 1..w.g.n_pace |->
                    IF w.g.pacing_types[i] = "FIXED" THEN FSys_GetLevel(time)
                    ELSE w.g.pacing[i]]
    IN  [w EXCEPT !.g.pacing = pace, !.g.evaluations = @ + 1,
                  !.g.model = Model_EvaluateDerivatives(
                                 Model_SetStates(
                                    Model_SetParametersFromIndependents(
                                       Model_SetBoundVariables(w.g.model, time, pace),
                                       w.g.model.parameters), ytag))]

\* shs + Model_LogSensitivityMatrix on sens_list.
LogSensitivities(w) ==
    [w EXCEPT !.py.sens_list = Model_LogSensitivityMatrix(w.g.model, @),
              !.g.model = Model_EvaluateSensitivityOutputs(@)]

\* Lines 2834-2845 (and the same sequence at 2618-2629 and 2934-2945): Model_Log,
\* then the sensitivities; failSink is the sink whose append fails (0: none).
LogRow(w, failSink) ==
    LET lg == Model_Log(w.g.model, w.py.log, failSink)
    IN  IF lg.flag # "Model_OK" THEN Stopped([w EXCEPT !.py.log = lg.log], "LogAppendFailed")
        ELSE IF w.g.model.has_sensitivities
        THEN Running(LogSensitivities([w EXCEPT !.py.log = lg.log]))
        ELSE Running([w EXCEPT !.py.log = lg.log])

(***************************************************************************)
(* sim_init.  A request a is the argument tuple plus what the environment  *)
(* decides during the call.                                                 *)
(***************************************************************************)
\* The log mapping and the lists the request hands over.
HostObjects(a) ==
    [ log |-> a.log, sens_list |-> <<>>, rf_list |-> <<>>,
      state_py |-> a.tmin, s_state_py |-> a.tmin, bound_py |-> <<0>> ]

\* Lines 1949-1980: the pointers sim_init sets to NULL before anything else.
null_pointers(w) ==
    [w EXCEPT !.g.ptr = [p \in PtrNames |->
        IF p \in {"model", "pacing_types", "pacing_systems", "pacing", "udata",
                  "pbar", "y", "sy", "z", "sz", "ylast", "cvode_mem"}
        THEN "NULL" ELSE w.g.ptr[p]]]

\* Lines 1984-2067: the arguments go into the globals, the latch is set.
init_globals(w, a) ==
    [null_pointers(w) EXCEPT
        !.g.tmin = a.tmin, !.g.tmax = a.tmax,
        !.g.log_interval = a.log_interval,
        !.g.log_times = a.log_times,
        !.g.rf_index = a.rf_index,
        !.py = HostObjects(a),
        !.g.initialized = TRUE,
        !.g.t = a.tmin,
        !.g.steps = 0,
        !.g.zero_step_count = 0, !.g.evaluations = 0, !.g.realtime = 0]

\* Line 2087.
create_model(w) ==
    [Alloc(w, "model", "model") EXCEPT !.g.model = Model_Create,
        !.g.ptr["model.pace_values"] = "NULL",
        !.g.ptr["model._log_vars"] = "NULL"]

\* Lines 2110-2136.
create_vectors(w) ==
    IF w.g.model.has_sensitivities
    THEN Alloc(Alloc(Alloc(w, "y", "y"), "ylast", "ylast"), "sy", "sy")
    ELSE Alloc(Alloc(w, "y", "y"), "ylast", "ylast")

\* Faulty variant of select_logging: the interval is not looked at.
select_logging_by_list(w, a) ==
    [w EXCEPT !.g.dynamic_logging = a.log_times.none]

\* Line 2143.
select_logging(w, a) ==
    [w EXCEPT !.g.dynamic_logging = (a.log_interval <= 0 /\ a.log_times.none)]

\* Lines 2149-2167: z and sz are y and sy, or vectors of their own.
create_logging_vectors(w) ==
    IF w.g.dynamic_logging \/ ~w.g.model.is_ode
    THEN [w EXCEPT !.g.ptr["z"] = w.g.ptr["y"], !.g.ptr["sz"] = w.g.ptr["sy"]]
    ELSE IF w.g.model.has_sensitivities THEN Alloc(Alloc(w, "z", "z"), "sz", "sz")
    ELSE Alloc(w, "z", "z")

init_vectors(w, a) == create_logging_vectors(select_logging(create_vectors(create_model(w)), a))

Abs(v) == IF v < 0 THEN 0 - v ELSE v

\* Line 2316: the scale of an independent with the value p.
pbar_scale(p) == IF p = 0 THEN ParameterUnit ELSE Abs(p)

\* Lines 2291-2323.
create_udata(w) ==
    IF w.g.model.has_sensitivities
    THEN [Alloc(Alloc(Alloc(w, "udata", "udata"), "udata.p", "udata.p"), "pbar", "pbar")
            EXCEPT !.g.pbar = [i \in 1..w.g.model.n_parameters |->
                                  pbar_scale(w.g.model.parameters[i])]]
    ELSE w

\* Faulty variant of set_constants: the constants derived from the literals are
\* calculated before the literals are copied.
set_constants_stale(m, a) ==
    IF m.has_sensitivities
    THEN Model_EvaluateParameterDerivedVariables(
            [Model_EvaluateLiteralDerivedVariables(m)
                EXCEPT !.literals = a.literals, !.parameters = a.parameters])
    ELSE [Model_EvaluateLiteralDerivedVariables(m) EXCEPT !.literals = a.literals]

\* Lines 2239-2283: the literals, and the parameters of a model with sensitivities.
set_constants(m, a) ==
    IF m.has_sensitivities
    THEN Model_EvaluateParameterDerivedVariables(
            [Model_EvaluateLiteralDerivedVariables([m EXCEPT !.literals = a.literals])
                EXCEPT !.parameters = a.parameters])
    ELSE Model_EvaluateLiteralDerivedVariables([m EXCEPT !.literals = a.literals])

\* Lines 2174-2323: initial state, constants, user data.
init_state(w, a) ==
    IF a.bad = "state" THEN Stopped(w, "InvalidArgumentShape")
    ELSE Running(create_udata([w EXCEPT !.g.y = a.tmin,
            !.g.sy = IF w.g.model.has_sensitivities THEN a.tmin ELSE @,
            !.g.model = set_constants([@ EXCEPT !.states = a.tmin], a)]))

\* Lines 493-517: the model's array of pacing values.
Model_SetupPacing(w, n) ==
    [Alloc(w, "model.pace_values", "pace_values")
        EXCEPT !.g.model.n_pace = n, !.g.model.pace_values = [i \in 1..n |-> 0]]

\* Lines 2328-2346: the pacing arrays; their entries are not initialised.
create_pacing_arrays(w, a) ==
    [Alloc(Alloc(Alloc(w, "pacing_systems", "pacing_systems"),
                 "pacing_types", "pacing_types"), "pacing", "pacing")
        EXCEPT !.g.n_pace = Len(a.protocols),
               !.g.pacing_systems = [i \in 1..Len(a.protocols) |-> [ptr |-> "WILD", e |-> ESys_Create]],
               !.g.pacing_types = [i \in 1..Len(a.protocols) |-> a.garbage],
               !.g.pacing = [i \in 1..Len(a.protocols) |-> 0]]

\* Lines 2325-2352; where malloc(0) returns NULL, the request for an array of no
\* entries is taken for a failed allocation (line 2336).
init_pacing_arrays(r, a) ==
    IF r.kind # "running" THEN r
    ELSE IF Len(a.protocols) = 0 /\ env.malloc0 = "NULL"
    THEN Stopped([r.w EXCEPT !.g.n_pace = 0], "AllocationFailed")
    ELSE Running([Model_SetupPacing(create_pacing_arrays(r.w, a), Len(a.protocols))
                    EXCEPT !.g.tnext = a.tmax])

\* ESys_Create / FSys_Create for entry i, and its type.
add_system(w, i, type) ==
    [w EXCEPT !.heap = @ \cup {PsysBlock(i)},
              !.g.pacing_systems[i] = [ptr |-> PsysBlock(i), e |-> ESys_Create],
              !.g.pacing_types[i] = type]

\* Lines 2362-2376: an event-based protocol; w has the system created.
init_event_protocol(w, a, i) ==
    LET adv == ESys_AdvanceTime(ESys_Populate(ESys_Create, a.protocols[i]), a.tmin)
    IN  IF ~a.protocols[i].ok \/ adv.flag # "ESys_OK" THEN Stopped(w, "InvalidPacing")
        ELSE Running([w EXCEPT !.g.pacing_systems[i].e = adv.e,
                               !.g.pacing[i] = ESys_GetLevel(adv.e),
                               !.g.tnext = Min(ESys_GetNextTime(adv.e), @)])

\* Lines 2359-2393: the pacing system of protocol i.
init_protocol(w, a, i) ==
    IF a.protocols[i].type = "Protocol"
    THEN init_event_protocol(add_system(w, i, "EVENT"), a, i)
    ELSE IF a.protocols[i].type = "TimeSeriesProtocol"
    THEN IF a.protocols[i].ok THEN Running(add_system(w, i, "FIXED"))
         ELSE Stopped(add_system(w, i, "FIXED"), "InvalidPacing")
    ELSE Stopped(w, "InvalidArgumentShape")

\* Lines 2357-2394: one pacing system per protocol.
RECURSIVE init_protocols(_, _, _)
init_protocols(r, a, i) ==
    IF r.kind # "running" \/ i > Len(a.protocols) THEN r
    ELSE init_protocols(init_protocol(r.w, a, i), a, i + 1)

\* Lines 2507-2520.
init_roots(w, a) ==
    IF w.g.model.is_ode /\ a.rf
    THEN Alloc(SetNull(w, "rf_direction"), "rf_direction", "rf_direction")
    ELSE SetNull(w, "rf_direction")

\* Lines 2396-2520: the solver and root finding.
init_solver(r, a) ==
    IF r.kind # "running" THEN r
    ELSE IF r.w.g.model.is_ode
    THEN Running(init_roots([Alloc(r.w, "cvode_mem", "cvode_mem") EXCEPT !.g.cv_t = r.w.g.t], a))
    ELSE Running(init_roots(r.w, a))

\* Lines 2563-2591: the first entry of log_times that is not before t.
RECURSIVE ReadLogTimes(_, _, _, _)
ReadLogTimes(items, ilog, tlog, time) ==
    IF ilog < Len(items) /\ tlog < time
    THEN ReadLogTimes(items, ilog + 1, items[ilog + 1], time)
    ELSE [ilog |-> ilog, tlog |-> tlog]

\* Faulty variant of start_point_list: the entries before t are not passed over.
start_point_list_unskipped(w) ==
    IF Len(w.g.log_times.items) = 0 THEN [w EXCEPT !.g.ilog = 0, !.g.tlog = w.g.tmax + 1]
    ELSE [w EXCEPT !.g.ilog = 1, !.g.tlog = w.g.log_times.items[1]]

\* Lines 2554-2591.
start_point_list(w) ==
    LET r == ReadLogTimes(w.g.log_times.items, 0, w.g.t - 1, w.g.t)
    IN  [w EXCEPT !.g.ilog = r.ilog,
                  !.g.tlog = IF r.tlog < w.g.t THEN w.g.tmax + 1 ELSE r.tlog]

\* Faulty variant of LogFirstPoint: the first point is logged whatever the sinks hold.
LogFirstPoint_always(log) == TRUE

\* Lines 2603-2610: is the log empty, judged by the first sink of the mapping.
LogFirstPoint(log) ==
    IF DOMAIN log = {} THEN TRUE
    ELSE Len(log[CHOOSE k \in DOMAIN log : TRUE]) <= 0

\* Lines 2534-2535: the sinks are bound to the model's variables.
bind_logging(w) ==
    LET il == Model_InitializeLogging(w.g.model, DOMAIN w.py.log)
    IN  [w |-> [Alloc(w, "model._log_vars", "log_vars") EXCEPT !.g.model = il.m],
         flag |-> il.flag]

\* Lines 2535-2631: b is the world with the sinks bound, and the flag of the binding.
start_logging(b, a) ==
    IF b.flag # "Model_OK" THEN Stopped(b.w, "UnknownLoggedVariable")
    ELSE IF b.w.g.model.has_sensitivities /\ a.bad = "sens_list"
    THEN Stopped(b.w, "InvalidArgumentShape")
    ELSE IF b.w.g.log_interval > 0
    THEN Running([b.w EXCEPT !.g.ilog = 0, !.g.tlog = b.w.g.tmin])
    ELSE IF ~b.w.g.log_times.none THEN Running(start_point_list(b.w))
    ELSE IF ~LogFirstPoint(b.w.py.log) THEN Running(b.w)
    ELSE LogRow(rhs(b.w, b.w.g.t, b.w.g.y), a.failSink)

\* Lines 2533-2631: logging set-up and the first-point log.
init_logging(r, a) ==
    IF r.kind # "running" THEN r ELSE start_logging(bind_logging(r.w), a)

\* Lines 2007-2520: sim_init from the latch to the solver.
init_before_logging(w, a) ==
    init_solver(
       init_protocols(
          init_pacing_arrays(
             init_state(init_vectors(init_globals(w, a), a), a), a), a, 1), a)

\* Lines 1984-2631: sim_init from the parsing of its arguments on.
init_from_arguments(w, a) ==
    IF a.bad = "args" THEN Raised(null_pointers(w), "IncorrectArguments")
    ELSE init_logging(init_before_logging(w, a), a)

\* Faulty variant of sim_init: the latch is not looked at.
sim_init_unlatched(w, a) == init_from_arguments(w, a)

sim_init(w, a) ==
    IF w.g.initialized THEN Raised(w, "AlreadyInitialized")
    ELSE init_from_arguments(w, a)

(***************************************************************************)
(* sim_step: one iteration of its loop.  An input x is what the integrator, *)
(* the sinks and the host's signal facility do during the iteration:        *)
(*   x.cv      "fail", "ok" (CV_SUCCESS) or "root" (CV_ROOT_RETURN)          *)
(*   x.t_ret   the time CVode returns                                       *)
(*   x.dir     the direction CVodeGetRootInfo reports                       *)
(*   x.failRow, x.failSink   the Model_Log call of this iteration, and the  *)
(*             sink in it, whose append fails (0: none)                     *)
(*   x.signal  PyErr_CheckSignals reports a pending signal                  *)
(***************************************************************************)
\* Lines 2708-2717 and 2997-3019: the outputs handed back through the lists.
WriteOutputs(w, ytag, time) ==
    [w EXCEPT !.py.state_py = ytag,
              !.py.bound_py = <<time, w.g.realtime, w.g.evaluations>> \o w.g.pacing]

\* Lines 2689-2695.
Backup(w) == [w EXCEPT !.g.ylast = w.g.y, !.g.tlast = w.g.t]

\* Lines 1791-1796: the root function reads entry rf_index of the state vector;
\* is that an entry of the vector.
rf_function_in_range(w) == 0 <= w.g.rf_index /\ w.g.rf_index < n_states

\* Faulty variant of Integrate: a failing step leaves the host's lists alone.
Integrate_silent(w, x) ==
    IF w.g.model.is_ode
    THEN IF x.cv = "fail"
         THEN Stopped(w, "IntegratorConvergence")
         ELSE Running(rhs([w EXCEPT !.g.t = x.t_ret, !.g.y = x.t_ret, !.g.cv_t = x.t_ret],
                          x.t_ret, StageTag))
    ELSE Running([w EXCEPT !.g.t = IF w.g.tmax > w.g.tnext THEN w.g.tnext ELSE w.g.tmax])

\* Lines 2697-2729: the integrator step (or the jump of a model without ODEs).
Integrate(w, x) ==
    IF w.g.model.is_ode
    THEN IF x.cv = "fail"
         THEN Stopped(WriteOutputs(w, w.g.ylast, w.g.tlast), "IntegratorConvergence")
         ELSE IF x.wild THEN Raised([w EXCEPT !.fault = "wild_read"], "none")
         ELSE Running(rhs([w EXCEPT !.g.t = x.t_ret, !.g.y = x.t_ret, !.g.cv_t = x.t_ret],
                          x.t_ret, StageTag))
    ELSE Running([w EXCEPT !.g.t = IF w.g.tmax > w.g.tnext THEN w.g.tnext ELSE w.g.tmax])

\* Faulty variant of CheckProgress: at the limit the run goes on, with its
\* counters starting again.
CheckProgress_wrapping(r) ==
    IF r.kind # "running" THEN r
    ELSE IF r.w.g.t # r.w.g.tlast
    THEN Running([r.w EXCEPT !.g.zero_step_count = 0, !.g.steps = @ + 1])
    ELSE IF r.w.g.zero_step_count + 1 >= max_zero_step_count
    THEN Running([r.w EXCEPT !.g.zero_step_count = 0, !.g.steps = 0, !.g.evaluations = 0])
    ELSE Running([r.w EXCEPT !.g.zero_step_count = @ + 1, !.g.steps = @ + 1])

\* Faulty variant of CheckProgress: the run fails one zero-length step later.
CheckProgress_late(r) ==
    IF r.kind # "running" THEN r
    ELSE IF r.w.g.t # r.w.g.tlast
    THEN Running([r.w EXCEPT !.g.zero_step_count = 0, !.g.steps = @ + 1])
    ELSE IF r.w.g.zero_step_count + 1 > max_zero_step_count
    THEN Stopped([r.w EXCEPT !.g.zero_step_count = @ + 1], "ZeroStepLimit")
    ELSE Running([r.w EXCEPT !.g.zero_step_count = @ + 1, !.g.steps = @ + 1])

\* Lines 2732-2742: the zero-progress guard and the step count.
CheckProgress(r) ==
    IF r.kind # "running" THEN r
    ELSE IF r.w.g.t # r.w.g.tlast
    THEN Running([r.w EXCEPT !.g.zero_step_count = 0, !.g.steps = @ + 1])
    ELSE IF r.w.g.zero_step_count + 1 >= max_zero_step_count
    THEN Stopped([r.w EXCEPT !.g.zero_step_count = @ + 1], "ZeroStepLimit")
    ELSE Running([r.w EXCEPT !.g.zero_step_count = @ + 1, !.g.steps = @ + 1])

\* Faulty variant of RewindOrRoot: a step past tnext is not taken back.
RewindOrRoot_never(r, x) == r

\* Lines 2772-2776: the sensitivities at t are fetched from the integrator.
GetSens(w) == IF w.g.model.has_sensitivities THEN [w EXCEPT !.g.sy = w.g.t] ELSE w

\* Faulty variant of RewindOrRoot: a root is recorded before the step is looked at.
RewindOrRoot_root_first(r, x) ==
    IF r.kind # "running" \/ ~r.w.g.model.is_ode THEN r
    ELSE IF x.cv = "root"
    THEN Running([GetSens(r.w) EXCEPT !.py.rf_list = Append(@, <<r.w.g.t, x.dir>>)])
    ELSE IF r.w.g.t > r.w.g.tnext
    THEN Running([r.w EXCEPT !.g.y = r.w.g.tnext, !.g.t = r.w.g.tnext,
                             !.g.sy = IF r.w.g.model.has_sensitivities THEN r.w.g.tnext ELSE @,
                             !.g.flag_reinit = TRUE])
    ELSE Running(GetSens(r.w))

\* Faulty variant of RewindOrRoot: a step taken back to tnext asks for no restart.
RewindOrRoot_unflagged(r, x) ==
    IF r.kind # "running" \/ ~r.w.g.model.is_ode THEN r
    ELSE IF r.w.g.t > r.w.g.tnext
    THEN Running([r.w EXCEPT !.g.y = r.w.g.tnext, !.g.t = r.w.g.tnext,
                             !.g.sy = IF r.w.g.model.has_sensitivities THEN r.w.g.tnext ELSE @])
    ELSE IF x.cv = "root"
    THEN Running([GetSens(r.w) EXCEPT !.py.rf_list = Append(@, <<r.w.g.t, x.dir>>)])
    ELSE Running(GetSens(r.w))

\* Lines 2750-2796: rewinding to tnext, or recording a root.
RewindOrRoot(r, x) ==
    IF r.kind # "running" \/ ~r.w.g.model.is_ode THEN r
    ELSE IF r.w.g.t > r.w.g.tnext
    THEN Running([r.w EXCEPT !.g.y = r.w.g.tnext, !.g.t = r.w.g.tnext,
                             !.g.sy = IF r.w.g.model.has_sensitivities THEN r.w.g.tnext ELSE @,
                             !.g.flag_reinit = TRUE])
    ELSE IF x.cv = "root"
    THEN Running([GetSens(r.w) EXCEPT !.py.rf_list = Append(@, <<r.w.g.t, x.dir>>)])
    ELSE Running(GetSens(r.w))

\* Faulty variant of LogDue: a logging point at t itself is logged.
LogDue_inclusive(w) == w.g.t >= w.g.tlog

\* Lines 2801 and 2808: is the logging point tlog behind t.
LogDue(w) == w.g.t > w.g.tlog

\* Faulty variant of Interpolate: the interpolated solution is written to y.
Interpolate_in_place(w) ==
    IF w.g.model.is_ode
    THEN rhs([w EXCEPT !.g.y = w.g.tlog], w.g.tlog, w.g.tlog)
    ELSE rhs(w, w.g.tlog, w.g.y)

\* Lines 2813-2832: the model is set to the interpolated solution at tlog.
Interpolate(w) ==
    IF w.g.model.is_ode
    THEN rhs([w EXCEPT !.g.z = w.g.tlog], w.g.tlog, w.g.tlog)
    ELSE rhs(w, w.g.tlog, w.g.y)

\* Faulty variant of NextLogPoint: the periodic index advances by two.
NextLogPoint_skipping(r) ==
    IF r.kind # "running" THEN r
    ELSE IF r.w.g.log_interval > 0
    THEN Running([r.w EXCEPT !.g.ilog = @ + 2,
                             !.g.tlog = r.w.g.tmin + (r.w.g.ilog + 2) * r.w.g.log_interval])
    ELSE IF r.w.g.ilog < Len(r.w.g.log_times.items)
    THEN IF r.w.g.log_times.items[r.w.g.ilog + 1] < r.w.g.tlog
         THEN Stopped(r.w, "LogTimesNonDecreasing")
         ELSE Running([r.w EXCEPT !.g.tlog = r.w.g.log_times.items[r.w.g.ilog + 1],
                                  !.g.ilog = @ + 1])
    ELSE Running([r.w EXCEPT !.g.tlog = r.w.g.tmax + 1])

\* Faulty variant of NextLogPoint: the next entry of log_times is taken unchecked.
NextLogPoint_unchecked(r) ==
    IF r.kind # "running" THEN r
    ELSE IF r.w.g.log_interval > 0
    THEN Running([r.w EXCEPT !.g.ilog = @ + 1,
                             !.g.tlog = r.w.g.tmin + (r.w.g.ilog + 1) * r.w.g.log_interval])
    ELSE IF r.w.g.ilog < Len(r.w.g.log_times.items)
    THEN Running([r.w EXCEPT !.g.tlog = r.w.g.log_times.items[r.w.g.ilog + 1],
                             !.g.ilog = @ + 1])
    ELSE Running([r.w EXCEPT !.g.tlog = r.w.g.tmax + 1])

\* Lines 2849-2855: the periodic logging point of the incremented index i1.
periodic_next(w, i1) ==
    IF i1 = 0 THEN Stopped(w, "CountOverflow")
    ELSE Running([w EXCEPT !.g.ilog = i1, !.g.tlog = w.g.tmin + i1 * w.g.log_interval])

\* Lines 2847-2886: the next logging point after a row at tlog.
NextLogPoint(r) ==
    IF r.kind # "running" THEN r
    ELSE IF r.w.g.log_interval > 0
    THEN periodic_next(r.w, r.w.g.ilog + 1)
    ELSE IF r.w.g.ilog < Len(r.w.g.log_times.items)
    THEN IF r.w.g.log_times.items[r.w.g.ilog + 1] < r.w.g.tlog
         THEN Stopped(r.w, "LogTimesNonDecreasing")
         ELSE Running([r.w EXCEPT !.g.tlog = r.w.g.log_times.items[r.w.g.ilog + 1],
                                  !.g.ilog = @ + 1])
    ELSE Running([r.w EXCEPT !.g.tlog = r.w.g.tmax + 1])

\* Lines 2801-2888: the interpolated rows of an iteration; n counts its Model_Log calls.
RECURSIVE LogInterpolated(_, _, _)
LogInterpolated(r, x, n) ==
    IF r.kind # "running" THEN r
    ELSE IF r.w.g.dynamic_logging \/ ~LogDue(r.w) THEN r
    ELSE LogInterpolated(
            NextLogPoint(LogRow(Interpolate(r.w), IF x.failRow = n THEN x.failSink ELSE 0)),
            x, n + 1)

\* Lines 2896-2908: the pacing systems are advanced to t.
RECURSIVE UpdatePacing(_, _)
UpdatePacing(r, i) ==
    IF r.kind # "running" THEN r
    ELSE IF i > r.w.g.n_pace THEN r
    ELSE IF r.w.g.pacing_types[i] # "EVENT" THEN UpdatePacing(r, i + 1)
    ELSE IF ESys_AdvanceTime(r.w.g.pacing_systems[i].e, r.w.g.t).flag # "ESys_OK"
    THEN Stopped(r.w, "InvalidPacing")
    ELSE UpdatePacing(
            Running([r.w EXCEPT
                !.g.pacing_systems[i].e = ESys_AdvanceTime(@, r.w.g.t).e,
                !.g.tnext = Min(@, ESys_GetNextTime(
                                      ESys_AdvanceTime(r.w.g.pacing_systems[i].e, r.w.g.t).e)),
                !.g.pacing[i] = ESys_GetLevel(
                                   ESys_AdvanceTime(r.w.g.pacing_systems[i].e, r.w.g.t).e)]),
            i + 1)

\* Faulty variant of ResetNext: tnext keeps the value of the update before.
ResetNext_kept(r) == r

\* Line 2896: tnext starts from tmax.
ResetNext(r) ==
    IF r.kind # "running" THEN r ELSE Running([r.w EXCEPT !.g.tnext = r.w.g.tmax])

\* Lines 2914-2932: what the model is set to before a dynamically logged row.
PrepareDynamic(w) ==
    IF w.g.model.logging_derivatives \/ w.g.model.logging_intermediary
       \/ w.g.model.has_sensitivities
    THEN rhs(w, w.g.t, w.g.y)
    ELSE IF w.g.model.logging_bound
    THEN [w EXCEPT !.g.model = Model_SetBoundVariables(@, w.g.t, w.g.pacing)]
    ELSE w

\* Faulty variant of LogDynamic: a step that did not move the time logs no row.
LogDynamic_moving(r, x) ==
    IF r.kind # "running" THEN r
    ELSE IF ~r.w.g.dynamic_logging \/ r.w.g.t = r.w.g.tlast THEN r
    ELSE LogRow(PrepareDynamic(r.w), IF x.failRow = 1 THEN x.failSink ELSE 0)

\* Lines 2911-2946: the row of a dynamically logged iteration.
LogDynamic(r, x) ==
    IF r.kind # "running" THEN r
    ELSE IF ~r.w.g.dynamic_logging THEN r
    ELSE LogRow(PrepareDynamic(r.w), IF x.failRow = 1 THEN x.failSink ELSE 0)

\* Faulty variant of Reinit: the restart is left for a later iteration.
Reinit_deferred(r) == r

\* Lines 2951-2959: the integrator is restarted from t after a rewind.
Reinit(r) ==
    IF r.kind # "running" THEN r
    ELSE IF r.w.g.model.is_ode /\ r.w.g.flag_reinit
    THEN Running([r.w EXCEPT !.g.cv_t = r.w.g.t, !.g.flag_reinit = FALSE])
    ELSE r

\* Line 2965.
Snap(w) == IF ESys_eq(w.g.t, w.g.tmax) THEN [w EXCEPT !.g.t = w.g.tmax] ELSE w

\* Lines 2997-3019: the final state, sensitivities and bound values.
WriteFinal(w) ==
    [WriteOutputs(w, w.g.y, w.g.t) EXCEPT
        !.py.s_state_py = IF w.g.model.has_sensitivities THEN w.g.sy ELSE @]

\* Faulty variant of Finish: a completed run hands back the state and the time its
\* last iteration started from.
Finish_stale(w, x, taken) ==
    IF w.g.t >= w.g.tmax
    THEN [w |-> sim_clean(WriteOutputs(w, w.g.ylast, w.g.tlast)),
          kind |-> "done", err |-> "none", val |-> w.g.t]
    ELSE IF x.signal THEN Stopped(w, "Cancelled")
    ELSE IF taken + 1 >= yield_steps
    THEN [w |-> w, kind |-> "yield", err |-> "none", val |-> w.g.t]
    ELSE Running(w)

\* Faulty variant of Finish: the yield comes one iteration late.
Finish_late(w, x, taken) ==
    IF w.g.t >= w.g.tmax
    THEN [w |-> sim_clean(WriteFinal(w)),
          kind |-> "done", err |-> "none", val |-> w.g.t]
    ELSE IF x.signal THEN Stopped(w, "Cancelled")
    ELSE IF taken + 1 > yield_steps
    THEN [w |-> w, kind |-> "yield", err |-> "none", val |-> w.g.t]
    ELSE Running(w)

\* Lines 2966-2987 and 2993-3026: finish, cancel, yield or go round again.
Finish(w, x, taken) ==
    IF w.g.t >= w.g.tmax
    THEN [w |-> sim_clean(WriteFinal(w)),
          kind |-> "done", err |-> "none", val |-> w.g.t]
    ELSE IF x.signal THEN Stopped(w, "Cancelled")
    ELSE IF taken + 1 >= yield_steps
    THEN [w |-> w, kind |-> "yield", err |-> "none", val |-> w.g.t]
    ELSE Running(w)

EndOfIteration(r, x, taken) ==
    IF r.kind # "running" THEN r ELSE Finish(Snap(r.w), x, taken)

\* Faulty variant of sim_step_iteration: the pacing systems are advanced to t
\* before the interpolated rows are written.
sim_step_iteration_pacing_first(w, x, taken) ==
    EndOfIteration(
       Reinit(
          LogDynamic(
             LogInterpolated(
                UpdatePacing(
                   ResetNext(
                      RewindOrRoot(CheckProgress(Integrate(Backup(w), x)), x)), 1), x, 1), x)),
       x, taken)

\* Lines 2687-2959: the phases of an iteration, in the order of the loop's body.
sim_step_body(w, x) ==
    Reinit(
       LogDynamic(
          UpdatePacing(
             ResetNext(
                LogInterpolated(
                   RewindOrRoot(CheckProgress(Integrate(Backup(w), x)), x), x, 1)), 1), x))

\* Lines 2687-3026: an iteration and what ends it.
sim_step_iteration(w, x, taken) == EndOfIteration(sim_step_body(w, x), x, taken)

(***************************************************************************)
(* sim_eval_derivatives.  Its arguments e: the time, the lists pace, state,  *)
(* literals and parameters, and e.bad, what is wrong with them ("none",     *)
(* "args": the tuple does not parse, "pace_item": an entry of pace is no    *)
(* float).  The call builds a model of its own, with as many pacing values  *)
(* as the static n_pace says.                                               *)
(***************************************************************************)
\* Lines 3096-3107: the transient model and its pacing values.
eval_model(n) ==
    [Model_Create EXCEPT !.n_pace = n, !.pace_values = [i \in 1..n |-> 0]]

\* Lines 3121-3160: bound variables, literals, parameters, state, derivatives.
eval_evaluate(m, e) ==
    Model_EvaluateDerivatives(
       [Model_EvaluateParameterDerivedVariables(
           [Model_EvaluateLiteralDerivedVariables(
               [Model_SetBoundVariables(m, e.time, e.pace) EXCEPT !.literals = e.literals])
            EXCEPT !.parameters = [i \in 1..m.n_parameters |-> e.parameters[i]]])
        EXCEPT !.states = e.state])

EvalBlocks == {"eval.pacing_in", "eval.pace_values"}

\* Lines 3053-3180: what the call does when the static n_pace is n.  leak: the
\* blocks it allocates and does not free (pacing_in, and the model's pace_values).
eval_outcome(n, e) ==
    IF e.bad = "args"
    THEN [kind |-> "error", err |-> "IncorrectArguments", deriv |-> <<>>, leak |-> {}]
    ELSE IF n = 0 /\ env.malloc0 = "NULL"
    THEN [kind |-> "error", err |-> "OutOfMemory", deriv |-> <<>>, leak |-> {}]
    ELSE IF n > Len(e.pace)
    THEN [kind |-> "crash", err |-> "null_deref", deriv |-> <<>>, leak |-> EvalBlocks]
    ELSE IF n > 0 /\ e.bad = "pace_item"
    THEN [kind |-> "error", err |-> "InvalidArgumentShape", deriv |-> <<>>, leak |-> EvalBlocks]
    ELSE [kind |-> "ok", err |-> "none",
          deriv |-> eval_evaluate(eval_model(n), e).derivatives, leak |-> EvalBlocks]

\* Line 3103: the number of pacing values is the static n_pace.
sim_eval_derivatives(w, e) == eval_outcome(w.g.n_pace, e)

(***************************************************************************)
(* The host.  env fixes the build (is_ode, has_sensitivities are constants  *)
(* of the generated model) and the family of runs the host makes:           *)
(*   "wide"    one simulation, any request of WideRequests                  *)
(*   "repeat"  up to MaxSims simulations, requests of RepeatRequests        *)
(*   "long"    one simulation in which the integrator may stall for up to   *)
(*             LongZeroRun steps, so that sim_step yields                   *)
(*   "stall"   one simulation in which the integrator never stops stalling  *)
(* zrun bounds the consecutive zero-length steps of the integrator; quiet   *)
(* says that no sink append fails, the integrator does not fail and no      *)
(* signal arrives; malloc0 is what the C library returns for malloc(0);     *)
(* junk is what a read past the end of an empty array finds.                *)
(*   "eval"    one simulation, with calls of sim_eval_derivatives before,    *)
(*             during and after it                                          *)
(*   "split"   a simulation from 0 to a time b and, once it has completed,   *)
(*             one from b to TEnd with the same arguments and sinks          *)
(***************************************************************************)
Environments ==
    {[host |-> "wide", is_ode |-> TRUE, has_sensitivities |-> s, zrun |-> MaxZeroRun,
      sims |-> 1, quiet |-> FALSE, malloc0 |-> "block", junk |-> JunkValue] : s \in BOOLEAN}
    \cup
    {[host |-> "wide", is_ode |-> FALSE, has_sensitivities |-> FALSE, zrun |-> MaxZeroRun,
      sims |-> 1, quiet |-> FALSE, malloc0 |-> "block", junk |-> JunkValue],
     [host |-> "repeat", is_ode |-> TRUE, has_sensitivities |-> TRUE, zrun |-> MaxZeroRun,
      sims |-> MaxSims, quiet |-> FALSE, malloc0 |-> "block", junk |-> JunkValue],
     [host |-> "repeat", is_ode |-> TRUE, has_sensitivities |-> TRUE, zrun |-> MaxZeroRun,
      sims |-> MaxSims, quiet |-> FALSE, malloc0 |-> "NULL", junk |-> JunkValue],
     [host |-> "long", is_ode |-> TRUE, has_sensitivities |-> FALSE, zrun |-> LongZeroRun,
      sims |-> 1, quiet |-> TRUE, malloc0 |-> "block", junk |-> JunkValue],
     [host |-> "stall", is_ode |-> TRUE, has_sensitivities |-> FALSE, zrun |-> max_zero_step_count,
      sims |-> 1, quiet |-> TRUE, malloc0 |-> "block", junk |-> JunkValue],
     [host |-> "split", is_ode |-> TRUE, has_sensitivities |-> FALSE, zrun |-> MaxZeroRun,
      sims |-> MaxSims, quiet |-> TRUE, malloc0 |-> "block", junk |-> JunkValue]}
    \cup
    {[host |-> "eval", is_ode |-> TRUE, has_sensitivities |-> TRUE, zrun |-> 0,
      sims |-> 1, quiet |-> TRUE, malloc0 |-> m, junk |-> j]
        : m \in {"block", "NULL"}, j \in {0, JunkValue}}

Event(S) == [type |-> "Protocol", events |-> S, ok |-> TRUE]
BadEvent == [type |-> "Protocol", events |-> {}, ok |-> FALSE]
TimeSeries == [type |-> "TimeSeriesProtocol", events |-> {}, ok |-> TRUE]
NoProtocol == [type |-> "Other", events |-> {}, ok |-> TRUE]

NoList == [none |-> TRUE, items |-> <<>>]
List(items) == [none |-> FALSE, items |-> items]

Periodic(D) == [log_interval |-> D, log_times |-> NoList]
PointList(items) == [log_interval |-> 0, log_times |-> List(items)]
Dynamic == [log_interval |-> 0, log_times |-> NoList]

Sinks(keys, kept) == [k \in keys |-> [i \in 1..kept |-> 0]]

Request(tmin, tmax, mode, keys, kept, protocols, rf) ==
    [ tmin |-> tmin, tmax |-> tmax,
      log_interval |-> mode.log_interval, log_times |-> mode.log_times,
      keys |-> keys, log |-> Sinks(keys, kept),
      protocols |-> protocols, rf |-> rf, rf_index |-> 0,
      bad |-> "none", garbage |-> "OTHER", failSink |-> 0,
      literals |-> DefaultLiterals,
      parameters |-> DefaultParameters(IF env.has_sensitivities THEN 2 ELSE 0) ]

KeySets ==
    { {"engine.time"}, {"membrane.V", "engine.time"}, {"membrane.V"},
      {"dot(membrane.V)", "engine.pace", "engine.time"} }

Modes ==
    { Periodic(1), Periodic(2), Dynamic,
      PointList(<<0, 2>>), PointList(<<1, 1, TEnd>>), PointList(<<2, 1>>),
      PointList(<<TEnd, 1>>),
      [log_interval |-> 2, log_times |-> List(<<1>>)] }

ProtocolLists == { <<>>, <<Event({1, 2})>>, <<Event({2}), TimeSeries>> }

BaseRequest == Request(0, TEnd, Dynamic, {"membrane.V", "engine.time"}, 0, <<Event({1})>>, FALSE)

\* A request with literals and parameters that are not those of a new model.
OtherConstants ==
    [BaseRequest EXCEPT !.literals = <<2, 1>>,
                        !.parameters = [i \in DOMAIN @ |-> @[i] + i]]

\* Requests whose sim_init fails, or whose first-point log fails.
FailingRequests ==
    {[BaseRequest EXCEPT !.bad = b] : b \in {"args", "state", "sens_list"}}
    \cup {[BaseRequest EXCEPT !.keys = @ \cup {"bogus"}, !.log = Sinks(BaseRequest.keys \cup {"bogus"}, 0)]}
    \cup {[BaseRequest EXCEPT !.protocols = <<Event({1}), q>>, !.garbage = x]
            : q \in {BadEvent, NoProtocol}, x \in {"OTHER", "EVENT", "FIXED"}}
    \cup {[BaseRequest EXCEPT !.failSink = i] : i \in 1..2}

\* Every logging mode; every set of sinks, empty or not; every protocol list.
WideRequests ==
    {Request(tmin, TEnd, mode, {"membrane.V", "engine.time"}, 0, <<>>, FALSE) :
        tmin \in 0..1, mode \in Modes}
    \cup
    {Request(tmin, TEnd, mode, keys, kept, <<>>, FALSE) :
        tmin \in 0..1, mode \in {Periodic(1), Dynamic}, keys \in KeySets,
        kept \in 0..MaxKeptRows}
    \cup
    {Request(0, TEnd, mode, {"engine.pace", "engine.time"}, 0, protocols, rf) :
        mode \in {Periodic(2), Dynamic, PointList(<<0, 2>>)},
        protocols \in ProtocolLists, rf \in BOOLEAN}
    \cup FailingRequests \cup {OtherConstants}
    \cup {[Request(0, TEnd, Dynamic, {"engine.time"}, 0, <<>>, TRUE) EXCEPT !.rf_index = i]
            : i \in {0 - 1, n_states}}

\* A host that runs again may hand over the sinks of its previous run.
RepeatRequests(log) ==
    LET keys == {"membrane.V", "engine.time"}
        fresh == {Request(1, 2, mode, keys, 0, protocols, FALSE) :
                     mode \in {Periodic(1), Dynamic}, protocols \in {<<>>, <<Event({1})>>}}
        again == IF DOMAIN log = keys /\ \A j, k \in keys : Len(log[j]) = Len(log[k])
                 THEN {[r EXCEPT !.log = log] : r \in fresh}
                 ELSE {}
    IN  fresh \cup again \cup {[BaseRequest EXCEPT !.bad = b] : b \in {"args", "state"}}

LongRequests ==
    {Request(0, LongTEnd, mode, {"engine.time"}, 0, <<>>, FALSE) : mode \in {Periodic(1), Dynamic}}

StallRequests == {Request(0, 1, Periodic(1), {"engine.time"}, 0, <<>>, FALSE)}

\* The first simulation of a "split" host runs from 0 to b; the second takes up
\* a completed first one at its tmax, with its arguments and the sinks it filled.
SplitRequests ==
    IF nsim = 0
    THEN {Request(0, b, mode, {"membrane.V", "engine.time"}, 0, protocols, FALSE) :
             b \in 1..TEnd, protocols \in {<<>>, <<Event({1})>>},
             mode \in {Periodic(1), Periodic(2), Dynamic,
                       PointList(<<0, 2>>), PointList(<<1, 1, TEnd>>)}}
    ELSE IF gh.status = "done" /\ gh.a.tmax < TEnd
    THEN {[gh.a EXCEPT !.tmin = gh.a.tmax, !.tmax = TEnd, !.log = py.log]}
    ELSE {}

EvalRequests ==
    {Request(0, 1, Dynamic, {"engine.time"}, 0, protocols, FALSE) :
        protocols \in {<<>>, <<Event({1})>>, <<Event({1}), TimeSeries>>}}

\* The arguments of sim_eval_derivatives.
EvalArgs ==
    {[bad |-> "none", time |-> 0, pace |-> q, state |-> y, literals |-> l, parameters |-> v] :
        q \in {<<>>, <<1>>, <<0, 1>>}, y \in {0, 1},
        l \in {DefaultLiterals, <<2, 1>>}, v \in {DefaultParameters(2), <<1, 2>>}}
    \cup
    {[bad |-> b, time |-> 0, pace |-> <<1>>, state |-> 0, literals |-> DefaultLiterals,
      parameters |-> DefaultParameters(2)] : b \in {"args", "pace_item"}}

Requests ==
    CASE env.host = "wide" -> WideRequests
      [] env.host = "eval" -> EvalRequests
      [] env.host = "repeat" -> RepeatRequests(py.log)
      [] env.host = "long" -> LongRequests
      [] env.host = "split" -> SplitRequests
      [] OTHER -> StallRequests

\* What the integrator, the sinks and the signal facility may do in one iteration.
StepInputs ==
    LET times == IF g.model.is_ode
                 THEN {u \in g.cv_t..(g.tnext + 1) : u = g.cv_t => g.zero_step_count < env.zrun}
                 ELSE {g.t}
        plain == [cv |-> "ok", t_ret |-> g.t, dir |-> 1, failRow |-> 0, failSink |-> 0,
                  signal |-> FALSE, wild |-> FALSE]
        upsets == {[plain EXCEPT !.t_ret = u, !.signal = TRUE] : u \in times}
                  \cup {[plain EXCEPT !.t_ret = u, !.failRow = n, !.failSink = i]
                          : u \in times, n \in 1..MaxFailRow,
                            i \in 1..g.model.n_logged_variables}
                  \cup (IF g.model.is_ode THEN {[plain EXCEPT !.cv = "fail"]} ELSE {})
    IN  {[plain EXCEPT !.t_ret = u] : u \in times}
        \cup (IF env.quiet THEN {} ELSE upsets)
        \cup (IF g.model.is_ode /\ g.ptr["rf_direction"] # "NULL"
              THEN {[plain EXCEPT !.cv = "root", !.t_ret = u, !.dir = d]
                      : u \in times \ {g.t}, d \in {0 - 1, 1}}
              ELSE {})
        \cup (IF g.model.is_ode /\ g.ptr["rf_direction"] # "NULL"
                 /\ ~rf_function_in_range([g |-> g])
              THEN {[plain EXCEPT !.wild = TRUE]}
              ELSE {})

(***************************************************************************)
(* The state machine.                                                       *)
(***************************************************************************)
World == [g |-> g, heap |-> heap, fault |-> fault, py |-> py]

Statics ==
    [ initialized |-> FALSE, ptr |-> NullPtrs, model |-> Model_Create,
      n_pace |-> 0, pacing_types |-> <<>>, pacing_systems |-> <<>>, pacing |-> <<>>,
      t |-> 0, tlast |-> 0, tnext |-> 0, tmin |-> 0, tmax |-> 0,
      dynamic_logging |-> FALSE, log_interval |-> 0, log_times |-> NoList,
      ilog |-> 0, tlog |-> 0, steps |-> 0, zero_step_count |-> 0,
      evaluations |-> 0, realtime |-> 0, sy |-> 0, pbar |-> <<>>, rf_index |-> 0,
      y |-> 0, ylast |-> 0, z |-> 0, cv_t |-> 0, flag_reinit |-> FALSE ]

HostLists ==
    [log |-> Sinks({}, 0), sens_list |-> <<>>, rf_list |-> <<>>,
     state_py |-> 0, s_state_py |-> 0, bound_py |-> <<0>>]

\* The state after a call that took the world to w.
Becomes(w) ==
    IF w.fault = "none"
    THEN g' = w.g /\ heap' = w.heap /\ fault' = w.fault /\ py' = w.py
    ELSE g' = Statics /\ heap' = {} /\ fault' = w.fault /\ py' = HostLists

NoReturn == [op |-> "none", kind |-> "none", err |-> "none", val |-> 0]

\* a: the request of the last sim_init that took the host's objects; log0: the
\* sinks as they were handed to it; status: how that simulation stands; rejected: a
\* sim_init was turned away while it was live; yields: the values its sim_step
\* calls returned early.
NoHistory ==
    [ a |-> BaseRequest, log0 |-> Sinks({}, 0), status |-> "idle", rejected |-> FALSE,
      yields |-> {} ]

NoEval == [a |-> <<>>, kind |-> "none", err |-> "none", deriv |-> <<>>]

Init ==
    /\ env \in Environments
    /\ g = Statics
    /\ heap = {}
    /\ fault = "none"
    /\ py = HostLists
    /\ pc = "host"
    /\ steps_taken = 0
    /\ ret = NoReturn
    /\ nsim = 0
    /\ gh = NoHistory
    /\ ev = NoEval

\* The host calls sim_init.
SimInit ==
    /\ pc = "host" /\ fault = "none"
    /\ g.initialized \/ nsim < env.sims
    /\ \E a \in (IF g.initialized THEN {BaseRequest} ELSE Requests) :
         \E r \in {sim_init(World, a)} :
             /\ Becomes(r.w)
             /\ ret' = [op |-> "init", kind |-> IF r.kind = "running" THEN "ok" ELSE "error",
                        err |-> r.err, val |-> 0]
             /\ nsim' = IF g.initialized THEN nsim ELSE nsim + 1
             /\ gh' = CASE g.initialized -> [gh EXCEPT !.rejected = TRUE]
                        [] r.err = "IncorrectArguments" -> [gh EXCEPT !.status = "init_failed"]
                        [] OTHER -> [a |-> a, log0 |-> a.log,
                                     status |-> IF r.err = "none" THEN "live" ELSE "init_failed",
                                     rejected |-> FALSE, yields |-> {}]
    /\ UNCHANGED <<env, pc, steps_taken, ev>>

\* The host calls sim_step on a live simulation: line 2665.
SimStep ==
    /\ pc = "host" /\ fault = "none"
    /\ g.initialized
    /\ pc' = "step"
    /\ steps_taken' = 0
    /\ UNCHANGED <<env, g, heap, fault, py, ret, nsim, gh, ev>>

\* The host calls sim_step with no simulation: model is NULL at line 2690.
SimStepUninitialized ==
    /\ pc = "host" /\ fault = "none"
    /\ ~g.initialized
    /\ Becomes([World EXCEPT !.fault = "null_model"])
    /\ UNCHANGED <<env, pc, steps_taken, ret, nsim, gh, ev>>

\* One iteration of sim_step's loop; flag_reinit is a local of the call (line 2659)
\* and ends with it.
SimStepIteration ==
    /\ pc = "step" /\ fault = "none"
    /\ \E x \in StepInputs :
         \E r \in {sim_step_iteration(World, x, steps_taken)} :
             /\ Becomes([r.w EXCEPT !.g.flag_reinit = (r.kind = "running" /\ @)])
             /\ pc' = IF r.kind = "running" THEN "step" ELSE "host"
             /\ ret' = IF r.kind = "running" THEN ret
                       ELSE [op |-> "step", kind |-> r.kind, err |-> r.err, val |-> r.val]
             /\ gh' = CASE r.kind = "yield" -> [gh EXCEPT !.yields = @ \cup {r.val}]
                        [] r.kind = "done" -> [gh EXCEPT !.status = "done"]
                        [] r.kind = "error" -> [gh EXCEPT !.status = "error"]
                        [] OTHER -> gh
    /\ steps_taken' = steps_taken + 1
    /\ UNCHANGED <<env, nsim, ev>>

\* The host calls sim_clean: lines 1893-1898.
py_sim_clean ==
    /\ pc = "host" /\ fault = "none"
    /\ \E w \in {sim_clean(World)} : Becomes(w)
    /\ gh' = [gh EXCEPT !.status = IF g.initialized THEN "cleaned" ELSE @]
    /\ UNCHANGED <<env, pc, steps_taken, ret, nsim, ev>>

\* The host calls sim_eval_derivatives.
SimEvalDerivatives ==
    /\ pc = "host" /\ fault = "none"
    /\ env.host = "eval"
    /\ \E e \in EvalArgs :
         \E o \in {sim_eval_derivatives(World, e)} :
             /\ Becomes([World EXCEPT
                    !.heap = @ \cup o.leak,
                    !.fault = IF o.kind = "crash" THEN o.err ELSE @])
             /\ ev' = [a |-> e, kind |-> o.kind, err |-> o.err, deriv |-> o.deriv]
    /\ UNCHANGED <<env, pc, steps_taken, ret, nsim, gh>>

Next ==
    \/ SimEvalDerivatives
    \/ SimInit
    \/ SimStep
    \/ SimStepUninitialized
    \/ SimStepIteration
    \/ py_sim_clean

Spec == Init /\ [][Next]_vars

(***************************************************************************)
(* The properties.                                                          *)
(***************************************************************************)
\* A sim_init has taken the host's objects.
Started == gh.status # "idle" /\ DOMAIN py.log = DOMAIN gh.log0

\* Rows appended to sink k since the sinks were handed to sim_init.
Appended(k) == Len(py.log[k]) - Len(gh.log0[k])

\* The times logged by the simulation, read from the sink of engine.time.
LoggedTimes ==
    SubSeq(py.log["engine.time"], Len(gh.log0["engine.time"]) + 1, Len(py.log["engine.time"]))

LogsTime == Started /\ fault = "none" /\ "engine.time" \in DOMAIN py.log

DynamicSelected == gh.a.log_interval <= 0 /\ gh.a.log_times.none

PeriodicSelected == gh.a.log_interval > 0

PointListSelected == gh.a.log_interval <= 0 /\ ~gh.a.log_times.none

SinksEmptyBefore == \A k \in DOMAIN gh.log0 : Len(gh.log0[k]) = 0

\* Control is back with the host from a sim_init that succeeded.
JustInitialised ==
    pc = "host" /\ fault = "none" /\ gh.status = "live" /\ ret.op = "init" /\ ret.kind = "ok"

\* The first n points of the periodic grid.
GridTimes(n) == [i \in 1..n |-> gh.a.tmin + (i - 1) * gh.a.log_interval]

\* The number of grid points tmin + i*D that lie before time u.
GridPointsBefore(u) ==
    Cardinality({i \in 0..(gh.a.tmax - gh.a.tmin) : gh.a.tmin + i * gh.a.log_interval < u})

NonDecreasing(s) == \A i \in 1..(Len(s) - 1) : s[i] <= s[i + 1]

\* C1: a sim_init while a simulation is live fails with AlreadyInitialized and
\* leaves the driver's variables, the heap and the host's objects as they were.
C1_SecondInitRejected ==
    [][(SimInit /\ g.initialized) =>
          (/\ ret'.err = "AlreadyInitialized"
           /\ g' = g /\ heap' = heap /\ py' = py /\ fault' = fault
           /\ pc' = pc /\ steps_taken' = steps_taken)]_vars

\* A simulation that turned a second sim_init away has been stepped to completion.
C1_Witness == gh.rejected /\ gh.status = "done" /\ ret.kind = "done"

\* C2 (P1): after a successful sim_init t = tmin, and every sink has received one
\* row if dynamic logging was selected and the sinks were empty, no row otherwise.
C2_InitialRow ==
    JustInitialised =>
        /\ g.t = gh.a.tmin
        /\ \A k \in DOMAIN py.log :
              Appended(k) = IF DynamicSelected /\ SinksEmptyBefore THEN 1 ELSE 0

\* A dynamic-logging sim_init on empty sinks has logged its first point.
C2_Witness ==
    /\ JustInitialised /\ DynamicSelected /\ SinksEmptyBefore
    /\ \A k \in DOMAIN py.log : Appended(k) = 1 /\ py.log[k][Len(py.log[k])] = ModelValue(g.model, k)

\* C3 (P2): the sim_step call that completes a run returns tmax, every earlier
\* call of the run returned less than tmax, and t never exceeds tmax.
C3_ReturnsTmax ==
    /\ gh.status = "done" => (ret.kind = "done" /\ ret.val = gh.a.tmax)
    /\ Started => \A v \in gh.yields : v < gh.a.tmax
    /\ g.t <= g.tmax

\* A run that yielded before it completed.
C3_Witness == gh.status = "done" /\ gh.yields # {} /\ ret.val = gh.a.tmax

\* C4 (P3): whenever control is with the host, every sink has received the same
\* number of rows.
C4_EqualRowCounts ==
    (pc = "host" /\ fault = "none" /\ Started) =>
        \A j, k \in DOMAIN py.log : Appended(j) = Appended(k)

\* C5 (P4) as stated: a completed periodic run logs tmin + i*D for i = 0..k,
\* k = floor((tmax - tmin) / D).
C5_FloorCount ==
    (LogsTime /\ PeriodicSelected /\ gh.status = "done") =>
        LoggedTimes = GridTimes(((gh.a.tmax - gh.a.tmin) \div gh.a.log_interval) + 1)

\* C5 (P4) amended: a completed periodic run logs tmin + i*D, in increasing order
\* and each once, for exactly the i >= 0 with tmin + i*D < tmax.
C5_GridBelowTmax ==
    (LogsTime /\ PeriodicSelected /\ gh.status = "done") =>
        LoggedTimes = GridTimes(GridPointsBefore(gh.a.tmax))

\* A completed periodic run whose span is a multiple of the interval, with two
\* rows or more and none at tmax.
C5_Witness ==
    /\ LogsTime /\ PeriodicSelected /\ gh.status = "done"
    /\ (gh.a.tmax - gh.a.tmin) % gh.a.log_interval = 0
    /\ Len(LoggedTimes) = (gh.a.tmax - gh.a.tmin) \div gh.a.log_interval
    /\ Len(LoggedTimes) >= 2

\* C6: periodic logging covers [tmin, tmax): every logged time is a grid point
\* below tmax, no grid point behind t is missing while the run is live, a completed
\* run has every grid point below tmax, and tmin = 0, D = 1 gives tmax rows.
C6_HalfOpen ==
    (LogsTime /\ PeriodicSelected /\ gh.status \in {"live", "done", "error", "cleaned"}) =>
        /\ \A i \in 1..Len(LoggedTimes) :
              LoggedTimes[i] = gh.a.tmin + (i - 1) * gh.a.log_interval
              /\ LoggedTimes[i] < gh.a.tmax
        /\ gh.status = "live" => Len(LoggedTimes) >= GridPointsBefore(g.t)
        /\ gh.status = "done" => Len(LoggedTimes) >= GridPointsBefore(gh.a.tmax)
        /\ (gh.status = "done" /\ gh.a.tmin = 0 /\ gh.a.log_interval = 1) =>
              Len(LoggedTimes) = gh.a.tmax

\* The completed run tmin = 0, tmax = TEnd, D = 1 has TEnd rows.
C6_Witness ==
    /\ LogsTime /\ PeriodicSelected /\ gh.status = "done"
    /\ gh.a.tmin = 0 /\ gh.a.tmax = TEnd /\ gh.a.log_interval = 1
    /\ Len(LoggedTimes) = TEnd

\* C7 (P5): a completed point-list run has logged the entries of log_times that
\* are >= tmin and <= tmax.
C7_PointListInclusive ==
    (LogsTime /\ PointListSelected /\ gh.status = "done"
        /\ NonDecreasing(gh.a.log_times.items)) =>
        LoggedTimes = SelectSeq(gh.a.log_times.items,
                                LAMBDA u : u >= gh.a.tmin /\ u <= gh.a.tmax)

\* C8 (P7): without sensitivities sens_list stays as it was handed over; with
\* sensitivities it has received as many matrices as every sink has received rows.
C8_SensitivityRows ==
    (fault = "none" /\ Started) =>
        IF env.has_sensitivities
        THEN \A k \in DOMAIN py.log : Len(py.sens_list) = Appended(k)
        ELSE py.sens_list = <<>>

\* C9 (P8): wherever the host can call it, sim_clean twice leaves what sim_clean
\* once leaves, and sim_clean without a simulation changes nothing.
C9_CleanIdempotent ==
    (pc = "host" /\ fault = "none") =>
        /\ sim_clean(sim_clean(World)) = sim_clean(World)
        /\ ~g.initialized => sim_clean(World) = World

\* The host has called sim_clean on a live simulation.
C9_Witness ==
    gh.status = "cleaned" /\ ~g.initialized /\ fault = "none" /\ sim_clean(World) = World

\* C10: once a simulation is torn down, by the host, on completion or on an error,
\* nothing sim_init acquired is still held and nothing was released twice.
C10_TeardownComplete ==
    (pc = "host" /\ ~g.initialized /\ gh.status # "idle" /\ fault # "null_model") =>
        (fault = "none" /\ heap = {})

\* A model holding the literals, state, time and pacing values of the arguments e
\* and the parameters v0, its derived constants calculated, its caches valid or not.
ModelHolding(e, v0, cached) ==
    [eval_model(Len(e.pace)) EXCEPT
        !.time = e.time, !.pace_values = e.pace, !.states = e.state,
        !.literals = e.literals, !.literal_derived = LiteralDerived(e.literals),
        !.parameters = v0, !.parameter_derived = ParameterDerived(v0),
        !.valid_cache_derivatives = cached, !.valid_cache_sensitivity_outputs = cached]

\* The outcome of the last sim_eval_derivatives.
EvalOutcome == [kind |-> ev.kind, err |-> ev.err, deriv |-> ev.deriv]

\* The outcome of sim_eval_derivatives(e) in a process that has done nothing else.
FreshOutcome(e) ==
    [kind |-> eval_outcome(Statics.n_pace, e).kind, err |-> eval_outcome(Statics.n_pace, e).err,
     deriv |-> eval_outcome(Statics.n_pace, e).deriv]

\* C11 (P6): the derivatives a successful sim_eval_derivatives(t, p, s, L, v) wrote
\* are those Model_EvaluateDerivatives gives after Model_SetParameters(v) on any
\* model holding L, s, t and p.
C11_SetParametersAgrees ==
    ev.kind = "ok" =>
        \A v0 \in {DefaultParameters(2), <<1, 2>>, <<2, 1>>}, cached \in BOOLEAN :
            Model_EvaluateDerivatives(
                Model_SetParameters(ModelHolding(ev.a, v0, cached), ev.a.parameters)).derivatives
            = ev.deriv

\* C12: the outcome of sim_eval_derivatives is the one the same arguments have in
\* a process that has done nothing else, whatever simulation preceded the call.
C12_EvalStateless ==
    ev.kind # "none" => EvalOutcome = FreshOutcome(ev.a)

\* Rows i of the sinks of engine.time and engine.pace that the step has appended.
NewRows == (Len(py.log["engine.pace"]) + 1)..Len(py'.log["engine.pace"])

\* The level of the first pacing system once it is advanced to time u.
LevelAt(u) == ESys_GetLevel(ESys_AdvanceTime(g.pacing_systems[1].e, u).e)

\* C13: in an iteration of sim_step the interpolated rows are written before the
\* pacing systems are advanced to t: each is for a time before t and carries the
\* pacing level in force before the advance; the row of dynamic logging is written
\* after the advance and carries the level at t; the integrator is restarted last,
\* so that it stands at t when the iteration ends.
C13_PhaseOrder ==
    [][(SimStepIteration /\ fault' = "none" /\ g.n_pace > 0 /\ g.pacing_types[1] = "EVENT"
          /\ DOMAIN py.log = {"engine.pace", "engine.time"})
       => /\ \A i \in NewRows :
                i <= Len(py'.log["engine.time"]) =>
                   IF g.dynamic_logging
                   THEN py'.log["engine.time"][i] = g'.t
                        /\ py'.log["engine.pace"][i] = LevelAt(g'.t)
                   ELSE py'.log["engine.time"][i] < g'.t
                        /\ py'.log["engine.pace"][i] = g.pacing[1]
          /\ (pc' = "step" /\ g.model.is_ode) => (g'.cv_t = g'.t /\ ~g'.flag_reinit)]_vars

\* A completed periodic run has logged rows at two different pacing levels, each
\* the level in force at the time of the row.
C13_Witness ==
    /\ LogsTime /\ PeriodicSelected /\ gh.status = "done"
    /\ "engine.pace" \in DOMAIN py.log
    /\ LoggedTimes = <<0, 2>>
    /\ py.log["engine.pace"] = <<0, 1>>

\* C14: a call of sim_step runs at most 100 iterations, counted from 0 in every
\* call; it returns on completion (t >= tmax), on an error, or as a yield after
\* its 100th iteration with t < tmax, and then it returns t and leaves the latch set.
C14_CooperativeYield ==
    [][/\ SimStep => steps_taken' = 0
       /\ SimStepIteration =>
             /\ steps_taken' <= yield_steps
             /\ pc' = "step" => (steps_taken' < yield_steps /\ g'.initialized /\ g'.t < g'.tmax)
             /\ (pc' = "host" /\ fault' = "none") =>
                   /\ ret'.op = "step" /\ ret'.kind \in {"done", "yield", "error"}
                   /\ ret'.kind = "done" => (g'.t >= g'.tmax /\ ~g'.initialized)
                   /\ ret'.kind = "yield" =>
                         /\ steps_taken' = yield_steps
                         /\ ret'.val = g'.t /\ g'.t < g'.tmax
                         /\ g'.initialized]_vars

\* A sim_step that yielded after its 100th iteration has been called again and
\* is in its second iteration.
C14_Witness ==
    /\ gh.yields # {} /\ ret.kind = "yield" /\ g.initialized
    /\ pc = "step" /\ steps_taken = 1

\* What an iteration leaves behind, apart from how the call goes on.
IterationEffect(x, taken) ==
    [w |-> sim_step_iteration(World, x, taken).w,
     stops |-> sim_step_iteration(World, x, taken).kind \in {"done", "error"},
     err |-> sim_step_iteration(World, x, taken).err]

\* C15: a yield loses nothing.  Between iterations the locals of sim_step hold
\* what a new call sets them to and the integrator stands at t; what an iteration
\* does to the simulation, the sinks and the lists does not depend on the number of
\* iterations the call has made; a yield returns t; and the re-entering call
\* changes nothing but its own counter.
C15_ResumptionLossless ==
    /\ []((fault = "none" /\ g.initialized) =>
             /\ ~g.flag_reinit
             /\ g.model.is_ode => g.cv_t = g.t
             /\ pc = "step" =>
                   \A x \in StepInputs :
                      /\ IterationEffect(x, steps_taken) = IterationEffect(x, 0)
                      /\ IterationEffect(x, steps_taken) = IterationEffect(x, yield_steps - 1)
                      /\ sim_step_iteration(World, x, yield_steps - 1).kind = "yield" =>
                            sim_step_iteration(World, x, yield_steps - 1).val
                               = sim_step_iteration(World, x, 0).w.g.t)
    /\ [][SimStep => (g' = g /\ heap' = heap /\ py' = py /\ steps_taken' = 0)]_vars

\* A periodic run that yielded has completed with its rows and its final outputs.
C15_Witness ==
    /\ LogsTime /\ PeriodicSelected /\ gh.status = "done" /\ gh.yields # {}
    /\ LoggedTimes = <<0, 1>>
    /\ py.state_py = gh.a.tmax /\ py.bound_py[1] = gh.a.tmax

\* Line 2732: would the step x of the integrator (or the jump of a model without
\* ODEs, line 2727) end at the time it started from.
ZeroLength(x) ==
    IF g.model.is_ode
    THEN x.cv # "fail" /\ x.t_ret = g.t
    ELSE (IF g.tmax > g.tnext THEN g.tnext ELSE g.tmax) = g.t

\* The guard's part in the iteration that the step x begins.
ZeroGuarded(x) ==
    /\ (sim_step_iteration(World, x, steps_taken).err = "ZeroStepLimit")
          <=> (ZeroLength(x) /\ g.zero_step_count + 1 = max_zero_step_count)
    /\ sim_step_iteration(World, x, steps_taken).kind # "error" =>
          sim_step_iteration(World, x, steps_taken).w.g.zero_step_count
             = IF ZeroLength(x) THEN g.zero_step_count + 1 ELSE 0

\* C16: zero_step_count goes up by one in an iteration whose step ends where it
\* started and back to 0 in any other; the run fails with ZeroStepLimit exactly
\* when that makes it 500; a yield and the call after it leave the count alone;
\* sim_init sets it to 0; and it is below 500 while the simulation is live.
C16_ZeroProgressGuard ==
    /\ []((fault = "none" /\ g.initialized) =>
             /\ g.zero_step_count < max_zero_step_count
             /\ pc = "step" => \A x \in StepInputs : ZeroGuarded(x))
    /\ [][/\ (~g.initialized /\ g'.initialized) => g'.zero_step_count = 0
          /\ SimStep => g'.zero_step_count = g.zero_step_count]_vars

\* A run that stalled through several yields has failed with ZeroStepLimit.
C16_Witness ==
    /\ ret.op = "step" /\ ret.kind = "error" /\ ret.err = "ZeroStepLimit"
    /\ gh.yields # {} /\ ~g.initialized /\ fault = "none"
    /\ g.zero_step_count = max_zero_step_count

\* C17: when the integrator's step fails, the call returns the error after writing
\* to the host's lists the state and the time the iteration started from (ylast,
\* tlast), realtime, the number of evaluations and the pacing levels, and the
\* simulation is torn down.
C17_FailureSnapshot ==
    [][(pc = "step" /\ pc' = "host" /\ ret'.err = "IntegratorConvergence") =>
          /\ ret'.kind = "error" /\ ~g'.initialized
          /\ g'.ylast = g.y /\ g'.tlast = g.t
          /\ py'.state_py = g'.ylast
          /\ py'.bound_py = <<g'.tlast, g.realtime, g'.evaluations>> \o g.pacing]_vars

\* A paced run that had advanced has failed in the integrator.
C17_Witness ==
    /\ ret.op = "step" /\ ret.err = "IntegratorConvergence" /\ fault = "none"
    /\ g.tlast > g.tmin /\ g.evaluations > 0
    /\ py.state_py = g.ylast /\ py.bound_py[1] = g.tlast
    /\ Len(py.bound_py) > 3

\* C18: whenever sim_step returns an error, the host's lists hold the state and the
\* time the failing iteration started from (ylast, tlast).
C18_ErrorSnapshot ==
    [][(pc = "step" /\ pc' = "host" /\ ret'.kind = "error") =>
          /\ ~g'.initialized
          /\ py'.state_py = g'.ylast
          /\ py'.bound_py[1] = g'.tlast]_vars

\* The errors sim_init returns before it sets the latch (lines 1934-2004).
BeforeLatch == {"AlreadyInitialized", "IncorrectArguments"}

\* C19: when sim_init, past the point where it sets the latch, or sim_step has
\* returned an error, the simulation has been torn down, the latch is clear and a
\* sim_init with a valid request succeeds.
C19_ErrorsFatal ==
    (pc = "host" /\ ret.kind = "error" /\ ret.err \notin BeforeLatch
        /\ fault # "null_model") =>
        /\ fault = "none" /\ ~g.initialized
        /\ sim_init(World, BaseRequest).kind = "running"

\* The pacing levels at time u: of an event protocol the level once it is advanced
\* to u, of a time series the level rhs has last looked up (lines 1725-1738).
LevelsAt(w, u) ==
    [i \in 1..w.g.n_pace |->
        IF w.g.pacing_types[i] = "EVENT"
        THEN ESys_GetLevel(ESys_AdvanceTime(g.pacing_systems[i].e, u).e)
        ELSE w.g.pacing[i]]

\* What the call that ends with the iteration r hands back, b being the
\* simulation as the body of that iteration left it.
Completed(r, b) ==
    /\ r.val = g.tmax /\ b.g.t = g.tmax
    /\ b.g.model.is_ode => b.g.y = g.tmax
    /\ (b.g.model.is_ode /\ env.has_sensitivities) => b.g.sy = g.tmax
    /\ r.w.py.state_py = b.g.y
    /\ r.w.py.s_state_py = IF env.has_sensitivities THEN b.g.sy ELSE py.s_state_py
    /\ r.w.py.bound_py = <<g.tmax, b.g.realtime, b.g.evaluations>> \o LevelsAt(b, g.tmax)
    /\ r.w.fault = "none" /\ ~r.w.g.initialized
    /\ sim_init(r.w, BaseRequest).kind = "running"

\* C20: the iteration that reaches tmax writes the final state, the final
\* sensitivities of a model that has them, and tmax, realtime, the number of
\* evaluations and the pacing levels to the host's lists, returns tmax and tears
\* the simulation down: the latch is clear and a sim_init succeeds at once.
C20_Completion ==
    (pc = "step" /\ fault = "none") =>
        \A x \in StepInputs :
           \A r \in {sim_step_iteration(World, x, steps_taken)} :
              r.kind = "done" =>
                 \A b \in {sim_step_body(World, x)} :
                    b.kind = "running" /\ Completed(r, Snap(b.w))

\* A paced run of a model with sensitivities has completed.
C20_Witness ==
    /\ pc = "host" /\ ret.op = "step" /\ ret.kind = "done" /\ fault = "none"
    /\ env.has_sensitivities /\ g.model.is_ode /\ ~g.initialized
    /\ gh.a.tmax > gh.a.tmin
    /\ py.state_py = gh.a.tmax /\ py.s_state_py = gh.a.tmax
    /\ Len(py.bound_py) > 3 /\ py.bound_py[3] > 0

StepRows == (Len(py.log["engine.time"]) + 1)..Len(py'.log["engine.time"])

\* C22: the logging mode is decided by log_interval and log_times as sim_init
\* received them and stays as decided while the simulation is live: periodic if
\* log_interval > 0, whether or not log_times is given, point-list if
\* log_interval <= 0 and log_times is given, dynamic otherwise.  An iteration of a
\* periodic run appends only grid points before t, one of a point-list run only
\* entries of log_times before t, and one of a dynamic run only the point t itself.
C22_ModeSelection ==
    /\ []((fault = "none" /\ g.initialized /\ Started) =>
             /\ g.dynamic_logging = DynamicSelected
             /\ g.log_interval = gh.a.log_interval
             /\ g.log_times = gh.a.log_times)
    /\ [][(SimStepIteration /\ fault' = "none" /\ "engine.time" \in DOMAIN py.log) =>
             /\ \A i \in StepRows :
                   CASE PeriodicSelected ->
                          /\ py'.log["engine.time"][i] < g'.t
                          /\ \E k \in 0..(g.tmax - g.tmin) :
                                py'.log["engine.time"][i] = g.tmin + k * g.log_interval
                     [] PointListSelected ->
                          /\ py'.log["engine.time"][i] < g'.t
                          /\ \E k \in 1..Len(g.log_times.items) :
                                py'.log["engine.time"][i] = g.log_times.items[k]
                     [] OTHER -> py'.log["engine.time"][i] = g'.t
             /\ DynamicSelected => Cardinality(StepRows) <= 1]_vars

\* A run given both an interval and a list of times has completed with the rows of
\* the periodic grid.
C22_Witness ==
    /\ LogsTime /\ gh.status = "done"
    /\ gh.a.log_interval = 2 /\ gh.a.log_times = List(<<1>>) /\ gh.a.tmin = 0
    /\ LoggedTimes = <<0, 2>>

\* What integration consists of: the time, the state and its sensitivities, the
\* snapshot, the next event, the integrator's own time and pending restart, the
\* counters of steps, the event-based pacing systems and their levels.
Integration(w) ==
    [t |-> w.g.t, y |-> w.g.y, sy |-> w.g.sy, ylast |-> w.g.ylast, tlast |-> w.g.tlast,
     tnext |-> w.g.tnext, tmin |-> w.g.tmin, tmax |-> w.g.tmax,
     cv_t |-> w.g.cv_t, flag_reinit |-> w.g.flag_reinit,
     steps |-> w.g.steps, zero_step_count |-> w.g.zero_step_count,
     initialized |-> w.g.initialized,
     systems |-> [i \in 1..w.g.n_pace |->
                     IF w.g.pacing_types[i] = "EVENT"
                     THEN <<w.g.pacing_systems[i].e, w.g.pacing[i]>>
                     ELSE <<>>]]

\* The body of an iteration with its two logging phases left out.
IntegrationOnly(w, x) ==
    Reinit(UpdatePacing(ResetNext(RewindOrRoot(CheckProgress(Integrate(Backup(w), x)), x)), 1))

\* The same simulation with other logging decisions and other logging points.
LoggingVariants(w) ==
    {[w EXCEPT !.g.dynamic_logging = v.d, !.g.log_interval = v.D, !.g.log_times = v.l,
               !.g.tlog = v.u, !.g.ilog = v.i] :
        v \in {[d |-> TRUE, D |-> 0, l |-> NoList, u |-> 0, i |-> 0],
               [d |-> FALSE, D |-> 1, l |-> NoList, u |-> 0, i |-> 0],
               [d |-> FALSE, D |-> 0, l |-> List(<<1, TEnd>>), u |-> 1, i |-> 1],
               [d |-> FALSE, D |-> 0, l |-> List(<<1>>), u |-> w.g.tmax + 1, i |-> 1]}}

\* The request a with another choice of log_interval and log_times.
WithMode(a, mode) ==
    [a EXCEPT !.log_interval = mode.log_interval, !.log_times = mode.log_times]

\* C23: logging does not disturb integration.  sim_init leaves the same
\* integration whatever the logging mode; and what an iteration does to the
\* integration is what it would do with its logging phases left out and with any
\* other logging mode and logging points, so that runs that differ in
\* log_interval and log_times only take the same steps, visit the same times and
\* end in the same state.
C23_LoggingNoninterference ==
    /\ (pc = "host" /\ fault = "none" /\ ~g.initialized /\ nsim < env.sims) =>
          \A a \in Requests : \A mode \in {Dynamic, Periodic(1), PointList(<<1, 1, TEnd>>)} :
             \A r \in {sim_init(World, a)} : \A q \in {sim_init(World, WithMode(a, mode))} :
                (r.kind = "running" /\ q.kind = "running") =>
                   Integration(r.w) = Integration(q.w)
    /\ (pc = "step" /\ fault = "none") =>
          \A x \in StepInputs : \A b \in {sim_step_body(World, x)} :
             b.kind = "running" =>
                \A v \in LoggingVariants(World) \cup {World} :
                   /\ IntegrationOnly(v, x).kind = "running"
                   /\ Integration(IntegrationOnly(v, x).w) = Integration(b.w)

\* A periodic run has completed in one step of the integrator with three
\* interpolated rows.
C23_Witness ==
    /\ LogsTime /\ PeriodicSelected /\ gh.status = "done" /\ g.model.is_ode
    /\ g.steps = 1 /\ LoggedTimes = <<0, 1, 2>>
    /\ py.state_py = gh.a.tmax

\* The request a with one more sink, for the name k.
WithKey(a, k) ==
    [a EXCEPT !.keys = @ \cup {k},
              !.log = [j \in DOMAIN a.log \cup {k} |->
                          IF j \in DOMAIN a.log THEN a.log[j] ELSE <<>>]]

\* Does the log mapping of a have a key that names no variable of the model.
UnknownKey(a) == \E k \in DOMAIN a.log : \A i \in 1..Len(LogNames) : LogNames[i] # k

\* What sim_init makes of the keys of a, r being its outcome.
KeysResolved(a, r) ==
    /\ (r.err = "UnknownLoggedVariable")
          <=> (UnknownKey(a) /\ a.bad # "args" /\ init_before_logging(World, a).kind = "running")
    /\ UnknownKey(a) => r.kind = "error"
    /\ r.err = "UnknownLoggedVariable" =>
          (r.w.py.log = a.log /\ ~r.w.g.initialized /\ r.w.fault = "none")
    /\ r.kind = "running" =>
          /\ r.w.g.model.n_logged_variables = Cardinality(DOMAIN a.log)
          /\ Len(r.w.g.model.log_vars) = Cardinality(DOMAIN a.log)

\* C24: a sim_init that gets as far as binding the sinks fails with
\* UnknownLoggedVariable exactly if a key of the log mapping names no state,
\* derivative, bound variable or intermediary variable of the model; it has then
\* appended no row and has torn the simulation down; no sim_init succeeds with
\* such a key; and a sim_init that succeeds has bound as many sinks as there are keys.
C24_UnknownLoggedVariable ==
    (pc = "host" /\ fault = "none" /\ ~g.initialized /\ nsim < env.sims) =>
        \A a0 \in Requests :
           \A a \in {a0, WithKey(a0, "bogus"), WithKey(a0, "membrane.C")} :
              \A r \in {sim_init(World, a)} : KeysResolved(a, r)

\* A sim_init with a key that names no variable has failed, with no row appended.
C24_Witness ==
    /\ pc = "host" /\ fault = "none" /\ ret.op = "init"
    /\ ret.err = "UnknownLoggedVariable" /\ ~g.initialized
    /\ "bogus" \in DOMAIN py.log /\ "membrane.V" \in DOMAIN py.log
    /\ \A k \in DOMAIN py.log : py.log[k] = <<>>

\* C25: a simulation with point-list logging whose log_times holds an entry
\* smaller than the entry before it never completes.
C25_DecreasingRejected ==
    (Started /\ fault = "none" /\ PointListSelected
       /\ ~NonDecreasing(gh.a.log_times.items)) => gh.status # "done"

\* The row sim_init logs for the first point of a dynamically logged simulation.
FirstRow == IF LogFirstPoint(gh.log0) THEN 1 ELSE 0

\* C26: with dynamic logging, every iteration that runs through its phases counts
\* one step and appends one row to every sink, so that while the simulation is
\* live and when it has completed every sink holds as many rows of sim_step as
\* steps were counted (next to the row of sim_init for the first point).
C26_RowPerStep ==
    /\ []((Started /\ fault = "none" /\ DynamicSelected /\ gh.status \in {"live", "done"}) =>
            \A k \in DOMAIN py.log : Appended(k) = g.steps + FirstRow)
    /\ [][(SimStepIteration /\ g.dynamic_logging /\ fault' = "none" /\ gh'.status # "error") =>
            /\ g'.steps = g.steps + 1
            /\ \A k \in DOMAIN py.log : Len(py'.log[k]) = Len(py.log[k]) + 1]_vars

\* A dynamically logged simulation has completed after a step of length zero
\* and a step that was rewound to an event.
C26_Witness ==
    /\ LogsTime /\ DynamicSelected /\ gh.status = "done" /\ g.model.is_ode
    /\ Len(LoggedTimes) = g.steps + 1 /\ g.steps >= 3
    /\ \E i \in 1..(Len(LoggedTimes) - 1) : LoggedTimes[i] = LoggedTimes[i + 1]
    /\ \E i \in 1..Len(LoggedTimes) : LoggedTimes[i] \notin {gh.a.tmin, gh.a.tmax}

\* C27: a row that an iteration appends in dynamic mode holds, for a state, the
\* solution y at the time t the iteration ends with, and for engine.time, t.
C27_DynamicRowsCurrent ==
    (pc = "step" /\ fault = "none" /\ g.dynamic_logging /\ g.model.is_ode) =>
        \A x \in StepInputs :
           \A b \in {sim_step_body(World, x)} :
              b.kind = "running" =>
                 \A k \in DOMAIN py.log :
                    /\ Len(b.w.py.log[k]) = Len(py.log[k]) + 1
                    /\ k \in StateNames =>
                          (b.w.g.y = b.w.g.t /\ b.w.py.log[k][Len(b.w.py.log[k])] = b.w.g.y)
                    /\ k = "engine.time" => b.w.py.log[k][Len(b.w.py.log[k])] = b.w.g.t

\* Lines 2896-2908: the earliest time at which an event-based system of w changes
\* its level (Infinity without such a system).
NextEvent(w) ==
    LET S == {ESys_GetNextTime(w.g.pacing_systems[i].e) :
                 i \in {j \in 1..w.g.n_pace : w.g.pacing_types[j] = "EVENT"}}
    IN  IF S = {} THEN Infinity ELSE SetMin(S)

\* tnext is the earlier of tmax and the next event, and every event-based system
\* has been advanced to t.
HorizonKept(w) ==
    /\ w.g.tnext = Min(w.g.tmax, NextEvent(w))
    /\ w.g.tnext <= w.g.tmax
    /\ \A i \in 1..w.g.n_pace :
          w.g.pacing_types[i] = "EVENT" => w.g.pacing_systems[i].e.cursor = w.g.t

\* Lines 2687-2908: an iteration up to and including its pacing update.
PacingUpdated(w, x) ==
    UpdatePacing(
       ResetNext(
          LogInterpolated(
             RewindOrRoot(CheckProgress(Integrate(Backup(w), x)), x), x, 1)), 1)

\* C28: while a simulation is live, that is after sim_init and after the pacing
\* update of every iteration, tnext is the earlier of tmax and the next event of
\* the event-based systems (time series play no part), hence at most tmax; and
\* the time an iteration advances the systems to is not before the time of the
\* update before and not after the tnext that update left, so that advancing
\* never fails and no event lies between two updates.
C28_PacingHorizon ==
    /\ (g.initialized /\ fault = "none") => HorizonKept(World)
    /\ (pc = "step" /\ fault = "none") =>
          \A x \in StepInputs :
             \A u \in {PacingUpdated(World, x)} :
                /\ u.err # "InvalidPacing"
                /\ u.kind = "running" =>
                      /\ g.t <= u.w.g.t /\ u.w.g.t <= g.tnext
                      /\ HorizonKept(u.w)
                      /\ \A e \in UNION {g.pacing_systems[i].e.events :
                                            i \in {j \in 1..g.n_pace : g.pacing_types[j] = "EVENT"}} :
                            ~(g.t < e /\ e < u.w.g.t)

\* A simulation with an event-based system and a time series is live after a
\* pacing update, with the next event before tmax.
C28_Witness ==
    /\ g.initialized /\ fault = "none" /\ pc = "step"
    /\ g.n_pace = 2 /\ g.pacing_types[1] = "EVENT" /\ g.pacing_types[2] = "FIXED"
    /\ g.t > g.tmin /\ g.t < g.tnext /\ g.tnext < g.tmax /\ g.steps >= 1

\* C29: the restart flag is clear between iterations, hence at every yield; and
\* in a model with ODEs an iteration that runs through its phases leaves the
\* integrator at t, has restarted it exactly if its step went past tnext and was
\* taken back to tnext, and has written its rows while the integrator still
\* stood where the step had left it.
C29_OvershootReinit ==
    /\ fault = "none" => ~g.flag_reinit
    /\ (pc = "step" /\ fault = "none" /\ g.model.is_ode) =>
          \A x \in StepInputs :
             \A b \in {sim_step_body(World, x)} :
                b.kind = "running" =>
                   /\ ~b.w.g.flag_reinit
                   /\ b.w.g.cv_t = b.w.g.t
                   /\ (x.t_ret > g.tnext) <=> (b.w.g.cv_t # x.t_ret)
                   /\ x.t_ret > g.tnext => (b.w.g.t = g.tnext /\ b.w.g.y = g.tnext)
                   /\ \A p \in {LogDynamic(PacingUpdated(World, x), x)} :
                         /\ p.w.py.log = b.w.py.log
                         /\ p.w.g.cv_t = x.t_ret
                         /\ p.w.g.flag_reinit <=> (x.t_ret > g.tnext)

\* After a first step, a live simulation with ODEs and an event ahead can take a
\* step past the event, which an iteration takes back and restarts from.
C29_Witness ==
    /\ pc = "step" /\ fault = "none" /\ g.initialized /\ g.model.is_ode
    /\ g.steps >= 1 /\ g.tnext < g.tmax /\ "engine.time" \in DOMAIN py.log
    /\ \E x \in StepInputs :
          /\ x.t_ret > g.tnext
          /\ sim_step_body(World, x).kind = "running"
          /\ sim_step_body(World, x).w.g.cv_t = g.tnext
          /\ Len(sim_step_body(World, x).w.py.log["engine.time"]) > Len(py.log["engine.time"])

\* The integrator reports a root in a step that does not go past tnext.
RootKept(x) == g.model.is_ode /\ x.cv = "root" /\ x.t_ret <= g.tnext

DerivedFresh(m) ==
    /\ m.literal_derived = LiteralDerived(m.literals)
    /\ m.parameter_derived = ParameterDerived(m.parameters)

\* The last derivatives of m were calculated from derived constants that are
\* those of its literals and parameters.
EvaluatedFresh(m) ==
    /\ m.derivatives.c = LiteralDerived(m.literals)
    /\ m.derivatives.p = ParameterDerived(m.parameters)

\* C31: whenever derivatives are evaluated, in sim_init, in an iteration of
\* sim_step or in sim_eval_derivatives, the constants derived from the literals
\* and from the parameters are those of the literals and parameters the caller
\* handed over.
C31_DerivedConstantsFresh ==
    /\ (pc = "host" /\ fault = "none" /\ ~g.initialized /\ nsim < env.sims) =>
          \A a \in Requests :
             \A r \in {sim_init(World, a)} :
                r.kind = "running" =>
                   /\ r.w.g.model.literals = a.literals
                   /\ r.w.g.model.has_sensitivities => r.w.g.model.parameters = a.parameters
                   /\ DerivedFresh(r.w.g.model)
                   /\ r.w.g.evaluations > 0 => EvaluatedFresh(r.w.g.model)
    /\ (g.initialized /\ fault = "none") =>
          /\ g.model.literals = gh.a.literals
          /\ DerivedFresh(g.model)
          /\ g.evaluations > 0 => EvaluatedFresh(g.model)
    /\ (pc = "step" /\ fault = "none") =>
          \A x \in StepInputs :
             \A b \in {sim_step_body(World, x)} :
                (b.kind = "running" /\ b.w.g.evaluations > g.evaluations) =>
                   (DerivedFresh(b.w.g.model) /\ EvaluatedFresh(b.w.g.model))
    /\ ev.kind = "ok" =>
          /\ ev.deriv.c = LiteralDerived(ev.a.literals)
          /\ ev.deriv.p = ParameterDerived(
                              [i \in 1..Model_Create.n_parameters |-> ev.a.parameters[i]])

\* A simulation with literals and parameters of its own has evaluated
\* derivatives in sim_init and in iterations of sim_step.
C31_Witness ==
    /\ pc = "step" /\ fault = "none" /\ g.initialized /\ g.model.has_sensitivities
    /\ gh.a.literals = <<2, 1>> /\ gh.a.parameters = <<2, 3>>
    /\ g.steps >= 2 /\ g.evaluations >= 3
    /\ g.model.derivatives.c = <<3>> /\ g.model.derivatives.p = <<8>>

(***************************************************************************)
(* The logging interface of the model on its own (lines 141-161): any       *)
(* sequence of Model_InitializeLogging, Model_Log and                       *)
(* Model_DeInitializeLogging on one model.  g.model is the model, py.log    *)
(* the mapping of the last Model_InitializeLogging that got to bind sinks,  *)
(* ret the last call and its flag; gh records the last call of              *)
(* Model_InitializeLogging or Model_DeInitializeLogging (last, flag) and    *)
(* the last of them that returned Model_OK (done).                          *)
(***************************************************************************)
LoggingKeySets ==
    { {}, {"membrane.V"}, {"dot(membrane.V)", "engine.time"}, {"membrane.V", "bogus"},
      {"membrane.i_ion", "engine.pace"} }

LoggingInit ==
    /\ env \in Environments
    /\ g = Statics
    /\ heap = {}
    /\ fault = "none"
    /\ py = HostLists
    /\ pc = "host"
    /\ steps_taken = 0
    /\ ret = NoReturn
    /\ nsim = 0
    /\ gh = [last |-> "none", flag |-> "none", done |-> "none"]
    /\ ev = NoEval

InitializeLogging ==
    /\ \E keys \in LoggingKeySets :
          \E r \in {Model_InitializeLogging(g.model, keys)} :
             /\ g' = [g EXCEPT !.model = r.m]
             /\ py' = IF r.flag = "Model_LOGGING_ALREADY_INITIALIZED" THEN py
                      ELSE [py EXCEPT !.log = Sinks(keys, 0)]
             /\ ret' = [op |-> "Model_InitializeLogging", kind |-> "flag",
                        err |-> r.flag, val |-> 0]
             /\ gh' = [last |-> "initialize", flag |-> r.flag,
                       done |-> IF r.flag = "Model_OK" THEN "initialize" ELSE gh.done]
    /\ UNCHANGED <<env, heap, fault, pc, steps_taken, nsim, ev>>

Log ==
    /\ \A k \in DOMAIN py.log : Len(py.log[k]) < MaxLoggedRows
    /\ \E r \in {Model_Log(g.model, py.log, 0)} :
          /\ py' = [py EXCEPT !.log = r.log]
          /\ ret' = [op |-> "Model_Log", kind |-> "flag", err |-> r.flag, val |-> 0]
    /\ UNCHANGED <<env, g, heap, fault, pc, steps_taken, nsim, gh, ev>>

DeInitializeLogging ==
    /\ \E r \in {Model_DeInitializeLogging(g.model)} :
          /\ g' = [g EXCEPT !.model = r.m]
          /\ ret' = [op |-> "Model_DeInitializeLogging", kind |-> "flag",
                     err |-> r.flag, val |-> 0]
          /\ gh' = [last |-> "deinitialize", flag |-> r.flag,
                    done |-> IF r.flag = "Model_OK" THEN "deinitialize" ELSE gh.done]
    /\ UNCHANGED <<env, py, heap, fault, pc, steps_taken, nsim, ev>>

LoggingNext == InitializeLogging \/ Log \/ DeInitializeLogging

LoggingSpec == LoggingInit /\ [][LoggingNext]_vars

\* C32 as stated: Model_Log and Model_DeInitializeLogging return
\* Model_LOGGING_NOT_INITIALIZED unless the most recent call of
\* Model_InitializeLogging or Model_DeInitializeLogging was a
\* Model_InitializeLogging that returned Model_OK.
C32_ByMostRecentCall ==
    [][(Log \/ DeInitializeLogging) =>
          (ret'.err = "Model_LOGGING_NOT_INITIALIZED"
              <=> ~(gh.last = "initialize" /\ gh.flag = "Model_OK"))]_vars

\* C32, amended: Model_Log and Model_DeInitializeLogging return
\* Model_LOGGING_NOT_INITIALIZED exactly while logging is not initialised, which
\* is unless the most recent call of Model_InitializeLogging or
\* Model_DeInitializeLogging that returned Model_OK was a
\* Model_InitializeLogging; Model_InitializeLogging returns
\* Model_LOGGING_ALREADY_INITIALIZED exactly while logging is initialised, and
\* then changes nothing; a Model_InitializeLogging that finds unknown variables
\* leaves logging not initialised; a Model_DeInitializeLogging that returns
\* Model_OK resets the number of bindings and the flags of the families, and a
\* Model_InitializeLogging after it is not turned away.
C32_LoggingLifecycle ==
    [][/\ g.model.logging_initialized <=> gh.done = "initialize"
       /\ (Log \/ DeInitializeLogging) =>
             (ret'.err = "Model_LOGGING_NOT_INITIALIZED" <=> ~g.model.logging_initialized)
       /\ InitializeLogging =>
             /\ ret'.err = "Model_LOGGING_ALREADY_INITIALIZED" <=> g.model.logging_initialized
             /\ ret'.err = "Model_LOGGING_ALREADY_INITIALIZED" => (g' = g /\ py' = py)
             /\ ret'.err = "Model_UNKNOWN_VARIABLES_IN_LOG" =>
                   (~g'.model.logging_initialized /\ "bogus" \in DOMAIN py'.log)
             /\ ret'.err = "Model_OK" =>
                   (g'.model.logging_initialized
                      /\ g'.model.n_logged_variables = Cardinality(DOMAIN py'.log))
       /\ (DeInitializeLogging /\ ret'.err = "Model_OK") =>
             /\ ~g'.model.logging_initialized
             /\ g'.model.n_logged_variables = 0
             /\ ~g'.model.logging_states /\ ~g'.model.logging_derivatives
             /\ ~g'.model.logging_intermediary /\ ~g'.model.logging_bound
             /\ \A keys \in LoggingKeySets :
                   \A r \in {Model_InitializeLogging(g'.model, keys)} :
                      /\ r.flag # "Model_LOGGING_ALREADY_INITIALIZED"
                      /\ r.flag = "Model_OK" =>
                            /\ r.m.logging_states <=> "membrane.V" \in keys
                            /\ r.m.logging_bound <=> ("engine.time" \in keys \/ "engine.pace" \in keys)
                            /\ r.m.logging_derivatives <=> "dot(membrane.V)" \in keys
                            /\ r.m.logging_intermediary <=> "membrane.i_ion" \in keys]_vars

\* Logging was initialised for two variables, a row was logged, and logging
\* was de-initialised.
C32_Witness ==
    /\ ret.op = "Model_DeInitializeLogging" /\ ret.err = "Model_OK"
    /\ gh.last = "deinitialize" /\ ~g.model.logging_initialized
    /\ DOMAIN py.log = {"membrane.i_ion", "engine.pace"}
    /\ Len(py.log["engine.pace"]) = 1
    /\ g.model.n_logged_variables = 0 /\ ~g.model.logging_intermediary

\* C33: in a simulation with sensitivities the scale of every independent is the
\* larger of 1 and the absolute value of the independent.
C33_PbarAtLeastOne ==
    (g.initialized /\ fault = "none" /\ g.model.has_sensitivities) =>
        /\ Len(g.pbar) = g.model.n_parameters
        /\ \A i \in 1..Len(g.pbar) :
              /\ g.pbar[i] >= ParameterUnit
              /\ g.pbar[i] = IF Abs(g.model.parameters[i]) > ParameterUnit
                             THEN Abs(g.model.parameters[i]) ELSE ParameterUnit

(***************************************************************************)
(* The periodic logging index on its own: ilog is a Py_ssize_t (line 1659), *)
(* here IndexBits wide, and "ilog++" (line 2849) at its largest value is a  *)
(* signed overflow, which a build either wraps to the smallest value or     *)
(* traps.                                                                  *)
(***************************************************************************)
MaxIndex == 2^(IndexBits - 1) - 1

MinIndex == 0 - 2^(IndexBits - 1)

\* Line 2849: the outcomes of ilog++.
SignedIncrement(i) ==
    IF i < MaxIndex THEN {[kind |-> "value", i |-> i + 1]}
    ELSE {[kind |-> "value", i |-> MinIndex], [kind |-> "trap", i |-> i]}

\* Lines 2847-2855: the next periodic logging point is taken after a row.
PeriodicIncrement ==
    /\ pc = "host" /\ fault = "none"
    /\ g.initialized /\ ~g.dynamic_logging /\ g.log_interval > 0
    /\ \E o \in SignedIncrement(g.ilog) :
          IF o.kind = "trap"
          THEN /\ Becomes([World EXCEPT !.fault = "overflow_trap"])
               /\ UNCHANGED <<ret, gh>>
          ELSE \E r \in {periodic_next(World, o.i)} :
                  /\ Becomes(r.w)
                  /\ ret' = IF r.kind = "running" THEN ret
                            ELSE [op |-> "step", kind |-> r.kind, err |-> r.err, val |-> r.val]
                  /\ gh' = IF r.kind = "running" THEN gh ELSE [gh EXCEPT !.status = "error"]
    /\ UNCHANGED <<env, pc, steps_taken, nsim, ev>>

IndexNext == SimInit \/ PeriodicIncrement

IndexSpec == Init /\ [][IndexNext]_vars

\* C34: an increment of the periodic logging index at its largest value ends
\* the run with CountOverflow, and no logging point is ever calculated from a
\* wrapped index.
C34_IndexOverflowFatal ==
    /\ [][(g.initialized /\ g.log_interval > 0 /\ ~g.dynamic_logging /\ g.ilog = MaxIndex
            /\ g' # g)
          => (fault' = "none" /\ ~g'.initialized
              /\ ret'.kind = "error" /\ ret'.err = "CountOverflow")]_vars
    /\ []((g.initialized /\ fault = "none" /\ g.log_interval > 0 /\ ~g.dynamic_logging)
            => (g.ilog >= 0 /\ g.tlog >= g.tmin))

\* C35: when sim_eval_derivatives has returned, on success or with an error,
\* every block the call allocated has been released.
C35_EvalReleasesAll ==
    (fault = "none" /\ ev.kind \in {"ok", "error"}) => heap \cap EvalBlocks = {}

\* C36: the step loop only runs while a simulation is initialised; a sim_step
\* without one is turned away and does not read the released model.
C36_StepNeedsLatch ==
    /\ pc = "step" => g.initialized
    /\ fault # "null_model"

\* C37: the times a simulation logs never decrease, strictly increase with
\* periodic logging, and all lie between tmin and tmax.
C37_LogTimesOrdered ==
    LogsTime =>
        /\ NonDecreasing(LoggedTimes)
        /\ \A i \in 1..Len(LoggedTimes) :
              gh.a.tmin <= LoggedTimes[i] /\ LoggedTimes[i] <= gh.a.tmax
        /\ PeriodicSelected =>
              \A i \in 1..(Len(LoggedTimes) - 1) : LoggedTimes[i] < LoggedTimes[i + 1]

C37_Witness ==
    /\ LogsTime /\ PointListSelected /\ gh.status = "done"
    /\ Len(LoggedTimes) >= 2 /\ LoggedTimes[1] < LoggedTimes[2]

\* The logging points of the whole interval from 0 to TEnd.
WholeRunTimes ==
    IF PeriodicSelected
    THEN [i \in 1..((TEnd + gh.a.log_interval - 1) \div gh.a.log_interval) |->
             (i - 1) * gh.a.log_interval]
    ELSE SelectSeq(gh.a.log_times.items, LAMBDA u : 0 <= u /\ u < TEnd)

\* C38: a run from 0 to b followed by a run from b to TEnd with the same sinks
\* logs the times of one run from 0 to TEnd: the periodic grid when b is on it,
\* the entries of log_times, and with dynamic logging the start and then one
\* row for each step, none for the second sim_init.
C38_SplitRunsCompose ==
    (env.host = "split" /\ fault = "none" /\ gh.status = "done" /\ gh.a.tmax = TEnd) =>
        /\ (PeriodicSelected /\ gh.a.tmin % gh.a.log_interval = 0) =>
               py.log["engine.time"] = WholeRunTimes
        /\ PointListSelected => py.log["engine.time"] = WholeRunTimes
        /\ DynamicSelected =>
              /\ py.log["engine.time"][1] = 0
              /\ py.log["engine.time"][Len(py.log["engine.time"])] = TEnd
              /\ NonDecreasing(py.log["engine.time"])
              /\ Len(LoggedTimes) = g.steps + (IF nsim = 1 THEN 1 ELSE 0)
              /\ nsim = 2 => gh.log0["engine.time"][Len(gh.log0["engine.time"])] = gh.a.tmin

C38_Witness ==
    /\ env.host = "split" /\ fault = "none" /\ gh.status = "done" /\ gh.a.tmax = TEnd
    /\ nsim = 2 /\ gh.a.tmin = 1 /\ PointListSelected
    /\ py.log["engine.time"] = <<0, 2>>

(***************************************************************************)
(* The driver with a host that keeps calling sim_step while a simulation    *)
(* is initialised (the loop of the calling Python code), and a sim_step     *)
(* that goes on to its next iteration until it returns.                     *)
(***************************************************************************)
\* Lines 2687 and 2978-2986: the loop of sim_step goes on to its next iteration.
\* This is SimStepIteration as the count of iterations shows it: the action is
\* enabled exactly when control is inside the loop, and every iteration counts.
NextIteration == pc = "step" /\ fault = "none" /\ steps_taken' = steps_taken + 1

LiveSpec ==
    Init /\ [][Next]_vars /\ WF_vars(SimStep) /\ WF_steps_taken(NextIteration)

\* C39: every initialised simulation ends: with the host calling sim_step again
\* and again the driver reaches tmax or an error, and clears the latch.
C39_SimulationEnds ==
    /\ g.initialized ~> ~g.initialized
    /\ [](g.initialized => g.zero_step_count < max_zero_step_count)

C39_Witness ==
    /\ env.host = "stall" /\ fault = "none" /\ pc = "host" /\ ~g.initialized
    /\ ret.op = "step" /\ ret.kind = "error" /\ ret.err = "ZeroStepLimit"
    /\ gh.yields # {} /\ g.steps >= max_zero_step_count - 1

\* C40: with root finding the root function only reads an entry of the state
\* vector: sim_init turns a request away, with full teardown, whose rf_index is
\* negative or not below the number of states.
C40_RootIndexValidated ==
    /\ (Started /\ fault = "none" /\ env.is_ode /\ gh.a.rf
           /\ ~(0 <= gh.a.rf_index /\ gh.a.rf_index < n_states)) =>
          (gh.status = "init_failed" /\ ~g.initialized)
    /\ fault # "wild_read"
    /\ (g.initialized /\ fault = "none" /\ g.ptr["rf_direction"] # "NULL") =>
          rf_function_in_range(World)

====
